---- MODULE Spec2Model ----
(***************************************************************************)
(* LeadGenerator: the content-analysis and lead-matching pipeline.         *)
(*   analyzer/llm_interface.py     query_llm, extract_json_from_response   *)
(*   analyzer/content_analyzer.py  ContentAnalyzer                         *)
(*   lead_finder/lead_generator.py LeadGenerator                           *)
(*   utils/helpers.py              get_cache_path                          *)
(***************************************************************************)
EXTENDS Integers, Sequences, FiniteSets, TLC

VARIABLES
    OPENAI_API_KEY,   \* llm_interface.py:28  TRUE iff the key is a non-empty string
    client,           \* llm_interface.py:32-37  TRUE iff the client object was built
    now,              \* datetime.now(), in ticks
    analysis_cache,   \* data/cache/analysis/<md5(key)>.json, by domain
    leads_cache,      \* data/cache/leads/<md5(key)>.json, by domain
    pc,               \* position of the running call
    caller,           \* which call is inside query_llm: "analyzer" or "leads"
    use_cache,        \* self.use_cache of the instance serving the call
    company_analysis, \* ContentAnalyzer.company_analysis (instance attribute)
    website_data,     \* argument of analyze_company
    content,          \* content_to_analyze, the result of _prepare_content
    attempt,          \* loop variable of query_llm's retry loop
    response_text,    \* what query_llm returned to its caller
    path,             \* "none", "hit", "normalize", "fallback"; for leads "llm", "rules"
    returned,         \* the profile analyze_company returned
    raised,           \* the exception that left the entry point, "" if none
    trace,            \* per call: gateway calls, cache writes, prepares, uses of the random
                      \* source, how the file system answered the cache check and write
    prev_file,        \* the cache file of the call's key as it was when the call began
    prev_miss,        \* what the latest caching miss for this key returned, as of the call's begin
    last_miss,        \* per domain: what the latest caching miss returned and stored, for
                      \* analyze_company (valid, p, at) and generate_leads (stored, leads, leads_at)
    lead_args,        \* arguments of generate_leads: profile and domain
    potential_matches,\* the candidates _generate_external_leads found
    leads,            \* the lead list generate_leads returned
    cache_file,       \* the analysis cache file of the domain two concurrent requests ask for
    requests,         \* per concurrent request: its position, its analysis, what it returned
    last_writer       \* the request whose _cache_results finished last, 0 if none

vars == <<OPENAI_API_KEY, client, now, analysis_cache, leads_cache, pc, caller,
          use_cache, company_analysis, website_data, content, attempt, response_text,
          path, returned, raised, trace, prev_file, prev_miss, last_miss, lead_args,
          potential_matches, leads, cache_file, requests, last_writer>>

\* the state of the two concurrent requests
race_vars == <<cache_file, requests, last_writer>>

\* the state of a call made on its own
call_vars == <<OPENAI_API_KEY, client, now, analysis_cache, leads_cache, pc, caller,
               use_cache, company_analysis, website_data, content, attempt, response_text,
               path, returned, raised, trace, prev_file, prev_miss, last_miss, lead_args,
               potential_matches, leads>>

-----------------------------------------------------------------------------
(* Bounds of the model *)

MaxTime == 3           \* the clock runs from 0 to MaxTime
cache_expiry == 2      \* ContentAnalyzer.cache_expiry / LeadGenerator.cache_expiry, in ticks

(* Program constants *)

max_retries == 3       \* query_llm(max_retries=3)

Domains == {"a.com", "b.com"}

-----------------------------------------------------------------------------
(* Python values.  Every value is a record of the same shape:              *)
(*   t      the Python type: absent (no such key), None, str, num, bool,   *)
(*          list, dict                                                     *)
(*   s      the text of a str                                              *)
(*   n      the number of a num or bool, the number of keys of a dict,     *)
(*          the instant of an ISO timestamp string                         *)
(*   items  the elements of a list, each [t, s]                            *)

Absent == [t |-> "absent", s |-> "", n |-> 0, items |-> <<>>]
PyNone == [t |-> "None", s |-> "", n |-> 0, items |-> <<>>]
PyStr(x) == [t |-> "str", s |-> x, n |-> 0, items |-> <<>>]
PyNum(k) == [t |-> "num", s |-> "", n |-> k, items |-> <<>>]
PyBool(b) == [t |-> "bool", s |-> "", n |-> IF b THEN 1 ELSE 0, items |-> <<>>]
PyList(xs) == [t |-> "list", s |-> "", n |-> 0, items |-> xs]
PyDict(k) == [t |-> "dict", s |-> "", n |-> k, items |-> <<>>]

StrItem(x) == [t |-> "str", s |-> x]
DictItem == [t |-> "dict", s |-> ""]

RECURSIVE StrItems(_)
StrItems(xs) == IF xs = <<>> THEN <<>> ELSE <<StrItem(Head(xs))>> \o StrItems(Tail(xs))

StrList(xs) == PyList(StrItems(xs))

\* Python truthiness: `not v` is ~Truthy(v)
Truthy(v) ==
    CASE v.t = "None" -> FALSE
      [] v.t = "str" -> v.s # ""
      [] v.t = "num" -> v.n # 0
      [] v.t = "bool" -> v.n = 1
      [] v.t = "list" -> v.items # <<>>
      [] v.t = "dict" -> v.n > 0
      [] OTHER -> FALSE

UNKNOWN_LLM == "Unknown - LLM analysis required"

-----------------------------------------------------------------------------
(* Profiles: a dict over the keys the program reads or writes.  A key the  *)
(* dict does not hold maps to Absent.                                      *)

Keys == {"company_type", "industry", "company_size", "target_market", "offerings",
         "pain_points", "decision_maker_roles", "timestamp"}

EmptyDict == [k \in Keys |-> Absent]

\* the loop of content_analyzer.py:172 stopping one field early
required_fields_short == <<"company_type", "industry", "company_size", "target_market",
                           "offerings">>

\* the keys of content_analyzer.py:163-170, in the dict's order
required_fields == <<"company_type", "industry", "company_size", "target_market",
                     "offerings", "pain_points">>

default_value(field) ==
    CASE field = "offerings" -> PyList(<<>>)
      [] field = "pain_points" -> PyList(<<>>)
      [] OTHER -> PyStr("Unknown")

list_fields == {"offerings", "pain_points", "target_market"}

\* one pass of the loop of _process_llm_response over `field`
process_field(response, field) ==
    LET filled == IF response[field].t = "absent" \/ ~Truthy(response[field])
                  THEN [response EXCEPT ![field] = default_value(field)]
                  ELSE response
    IN IF field \in list_fields /\ filled[field].t = "str"
       THEN [filled EXCEPT ![field] = PyList(<<StrItem(filled[field].s)>>)]
       ELSE filled

RECURSIVE process_fields(_, _)
process_fields(response, fields) ==
    IF fields = <<>> THEN response
    ELSE process_fields(process_field(response, Head(fields)), Tail(fields))

-----------------------------------------------------------------------------
(* What json.loads gives for a text: k is the Python type of the parsed    *)
(* value, d the dict when k = "dict" (an analysis answer), pm the value    *)
(* under 'potential_matches' (a lead answer).                              *)

NoCands == [t |-> "absent", cands |-> <<>>]
Parsed(k, d, pm) == [k |-> k, d |-> d, pm |-> pm]
ParsedDict(d) == Parsed("dict", d, NoCands)
ParsedOther(k) == Parsed(k, EmptyDict, NoCands)

\* The outcome of a call: a returned value or a raised exception
Return(v) == [out |-> "return", exc |-> "", v |-> v]
Raise(e, v) == [out |-> "raise", exc |-> e, v |-> v]

\* a _process_llm_response that starts from an empty dict when it is given
\* something else than a dict
_process_llm_response_lenient(response) ==
    IF response.k = "dict"
    THEN Return(process_fields(response.d, required_fields))
    ELSE Return(process_fields(EmptyDict, required_fields))

\* _process_llm_response: `field not in response` and `response[field] = ...`
\* raise TypeError for None, a list, a number, a bool and a str
_process_llm_response(response) ==
    IF response.k = "dict"
    THEN Return(process_fields(response.d, required_fields))
    ELSE Raise("TypeError", EmptyDict)

-----------------------------------------------------------------------------
(* Texts.  A text is known by what json.loads makes of it and of its       *)
(* substrings: whole (the entire text), objspan (first '{' to last '}'),   *)
(* arrspan (first '[' to last ']'), fence (the group of the regex of       *)
(* lead_generator.py:214).  st is "ok" (parses, to v), "err" (does not     *)
(* parse) or "none" (the text has no such substring).  isnone marks        *)
(* Python's None in place of a text.                                       *)

PErr == [st |-> "err", v |-> ParsedOther("None")]
PNo == [st |-> "none", v |-> ParsedOther("None")]
POk(v) == [st |-> "ok", v |-> v]

Text(id, whole, objspan, arrspan, fence) ==
    [id |-> id, isnone |-> FALSE, whole |-> whole, objspan |-> objspan,
     arrspan |-> arrspan, fence |-> fence]

NoneText == [id |-> "None", isnone |-> TRUE, whole |-> PErr, objspan |-> PNo,
             arrspan |-> PNo, fence |-> PNo]

\* llm_interface.py:61, 65, 92: plain sentences, no brace and no bracket
SENTINEL_NO_KEY == Text("OpenAI API key is not set", PErr, PNo, PNo, PNo)
SENTINEL_NO_CLIENT == Text("OpenAI client is not initialized", PErr, PNo, PNo, PNo)
SENTINEL_FAILED == Text("Failed to get response from LLM", PErr, PNo, PNo, PNo)

Sentinels == {SENTINEL_NO_KEY, SENTINEL_NO_CLIENT, SENTINEL_FAILED}

\* extract_json_from_response.  json.loads(None) raises TypeError, which the
\* function does not catch.  A '{'..'}' substring that does not parse raises
\* JSONDecodeError inside the inner try, which ends the attempts.
extract_json_from_response(text) ==
    IF text.isnone THEN Raise("TypeError", ParsedOther("None"))
    ELSE IF text.whole.st = "ok" THEN Return(text.whole.v)
    ELSE IF text.objspan.st # "none"
         THEN IF text.objspan.st = "ok" THEN Return(text.objspan.v)
              ELSE Return(ParsedOther("None"))
    ELSE IF text.arrspan.st # "none"
         THEN IF text.arrspan.st = "ok" THEN Return(text.arrspan.v)
              ELSE Return(ParsedOther("None"))
    ELSE Return(ParsedOther("None"))

-----------------------------------------------------------------------------
(* Prepared content, known by what the regular expressions and substring   *)
(* counts of the rule-based analysis find in it.                           *)
(*   b2b, b2c, gov, npo   summed keyword counts of _guess_company_type     *)
(*   ind_hits             industries whose pattern matches                 *)
(*   large, medium, small whether some size indicator matches              *)
(*   team                 N of the first 'team of N', -1 when none         *)
(*   tm_b2b, tm_b2c       whether some target-market indicator matches     *)
(*   tm_inds              the industry indicators that match               *)
(*   pat_items            unique_offerings of _extract_offerings_with_     *)
(*                        patterns, each item as its comma-separated parts *)
(*   pain_matches         the regex captures of _guess_pain_points [s,len] *)

\* "Website: https://a.com\nCompany Name: \nPage Title: \nDescription: \n\nMain Content: \n\n"
CONTENT_EMPTY ==
    [id |-> "empty", nonempty |-> TRUE, b2b |-> 1, b2c |-> 0, gov |-> 0, npo |-> 0,
     ind_hits |-> {}, large |-> FALSE, medium |-> FALSE, small |-> FALSE, team |-> -1,
     tm_b2b |-> FALSE, tm_b2c |-> FALSE, tm_inds |-> {},
     pat_items |-> <<>>, pain_matches |-> <<>>]

\* "...Main Content: Acme builds software for enterprise clients. We offer cloud
\* hosting, data analytics and API. Our team of 40 helps customers improve their
\* delivery pipeline speed.\n\n"
CONTENT_TECH ==
    [id |-> "tech", nonempty |-> TRUE, b2b |-> 3, b2c |-> 1, gov |-> 0, npo |-> 0,
     ind_hits |-> {"Technology"}, large |-> TRUE, medium |-> FALSE, small |-> FALSE,
     team |-> 40, tm_b2b |-> TRUE, tm_b2c |-> FALSE, tm_inds |-> {},
     pat_items |-> << <<"cloud hosting">>, <<"data analytics">> >>,
     pain_matches |-> << [s |-> "their delivery pipeline speed", len |-> 29] >>]

\* "...Main Content: Family shop for people. Our Products: \n* Handmade soap\n
\* * Candles, wax\n* Tea\n\nWe struggle with late deliveries from suppliers every week.\n\n"
CONTENT_SHOP ==
    [id |-> "shop", nonempty |-> TRUE, b2b |-> 1, b2c |-> 1, gov |-> 0, npo |-> 0,
     ind_hits |-> {"Retail"}, large |-> FALSE, medium |-> FALSE, small |-> FALSE,
     team |-> -1, tm_b2b |-> FALSE, tm_b2c |-> TRUE, tm_inds |-> {},
     pat_items |-> << <<"Handmade soap">>, <<"Candles", "wax">> >>,
     pain_matches |-> << [s |-> "with late deliveries from suppliers every week", len |-> 46] >>]

\* "...Main Content: A medical clinic for patients.\n\n"
CONTENT_CLINIC ==
    [id |-> "clinic", nonempty |-> TRUE, b2b |-> 1, b2c |-> 0, gov |-> 0, npo |-> 0,
     ind_hits |-> {"Healthcare"}, large |-> FALSE, medium |-> FALSE, small |-> FALSE,
     team |-> -1, tm_b2b |-> FALSE, tm_b2c |-> FALSE, tm_inds |-> {},
     pat_items |-> <<>>, pain_matches |-> <<>>]

Contents == {CONTENT_EMPTY, CONTENT_TECH, CONTENT_SHOP, CONTENT_CLINIC}

\* _prepare_content: the content prepared from the record's pages
_prepare_content(wd) ==
    CASE wd.page = "tech" -> CONTENT_TECH
      [] wd.page = "shop" -> CONTENT_SHOP
      [] wd.page = "clinic" -> CONTENT_CLINIC
      [] OTHER -> CONTENT_EMPTY

\* the strings of the model shorter than 4 characters
ShortStrings == {"wax", "Tea", "API"}
LenLt4(x) == x \in ShortStrings

\* str.lower() on the strings whose lower-case form the code tests
Lower(x) ==
    CASE x = "Unknown" -> "unknown"
      [] x = "Services" -> "services"
      [] x = "Products" -> "products"
      [] x = "Solutions" -> "solutions"
      [] OTHER -> x

RECURSIVE Flatten(_)
Flatten(xss) == IF xss = <<>> THEN <<>> ELSE Head(xss) \o Flatten(Tail(xss))

RECURSIVE Dedupe(_)
\* list(dict.fromkeys(xs)): first occurrences, in order
Dedupe(xs) ==
    IF xs = <<>> THEN <<>>
    ELSE LET init == Dedupe(SubSeq(xs, 1, Len(xs) - 1))
             last == xs[Len(xs)]
         IN IF \E i \in 1..Len(init) : init[i] = last THEN init ELSE Append(init, last)

Take(xs, k) == SubSeq(xs, 1, IF Len(xs) < k THEN Len(xs) ELSE k)

\* F of x, with x evaluated once
Once(x, F(_)) == CHOOSE r \in {F(v) : v \in {x}} : TRUE

\* _guess_company_type: max() keeps the first of the largest counts
\* max() keeping the last of the largest counts
_guess_company_type_last(c) ==
    LET m == IF c.npo >= c.gov /\ c.npo >= c.b2c /\ c.npo >= c.b2b THEN <<"Non-profit", c.npo>>
             ELSE IF c.gov >= c.b2c /\ c.gov >= c.b2b THEN <<"Government", c.gov>>
             ELSE IF c.b2c >= c.b2b THEN <<"B2C", c.b2c>>
             ELSE <<"B2B", c.b2b>>
    IN IF m[2] > 0 THEN m[1] ELSE "Unknown"

_guess_company_type(c) ==
    LET m == IF c.b2b >= c.b2c /\ c.b2b >= c.gov /\ c.b2b >= c.npo THEN <<"B2B", c.b2b>>
             ELSE IF c.b2c >= c.gov /\ c.b2c >= c.npo THEN <<"B2C", c.b2c>>
             ELSE IF c.gov >= c.npo THEN <<"Government", c.gov>>
             ELSE <<"Non-profit", c.npo>>
    IN IF m[2] > 0 THEN m[1] ELSE "Unknown"

industry_order == <<"Technology", "Healthcare", "Finance", "Education", "Manufacturing",
                    "Retail", "Consulting">>

\* _guess_industry: the first industry, in the dict's order, whose pattern matches
_guess_industry(c) ==
    IF \E i \in 1..Len(industry_order) : industry_order[i] \in c.ind_hits
    THEN industry_order[CHOOSE i \in 1..Len(industry_order) :
                            /\ industry_order[i] \in c.ind_hits
                            /\ \A j \in 1..(i - 1) : industry_order[j] \notin c.ind_hits]
    ELSE "Unknown"

\* the 'team of N' phrase looked at before the indicators
_guess_company_size_team_first(c) ==
    IF c.team >= 0
    THEN IF c.team < 50 THEN "Small" ELSE IF c.team < 500 THEN "Medium" ELSE "Large"
    ELSE IF c.large THEN "Large"
    ELSE IF c.medium THEN "Medium"
    ELSE IF c.small THEN "Small"
    ELSE "Medium"

_guess_company_size(c) ==
    IF c.large THEN "Large"
    ELSE IF c.medium THEN "Medium"
    ELSE IF c.small THEN "Small"
    ELSE IF c.team >= 0
         THEN IF c.team < 50 THEN "Small" ELSE IF c.team < 500 THEN "Medium" ELSE "Large"
    ELSE "Medium"

industry_indicators == <<"healthcare", "finance", "retail", "education", "manufacturing",
                         "technology">>

\* f'{indicator.title()} Industry'
IndustryLabel(x) ==
    CASE x = "healthcare" -> "Healthcare Industry"
      [] x = "finance" -> "Finance Industry"
      [] x = "retail" -> "Retail Industry"
      [] x = "education" -> "Education Industry"
      [] x = "manufacturing" -> "Manufacturing Industry"
      [] OTHER -> "Technology Industry"

RECURSIVE IndustryLabels(_, _)
IndustryLabels(hits, inds) ==
    IF inds = <<>> THEN <<>>
    ELSE (IF Head(inds) \in hits THEN <<IndustryLabel(Head(inds))>> ELSE <<>>)
         \o IndustryLabels(hits, Tail(inds))

_guess_target_market(c) ==
    LET target_markets ==
            (IF c.tm_b2b THEN <<"B2B Companies">> ELSE <<>>)
            \o (IF c.tm_b2c THEN <<"Individual Consumers">> ELSE <<>>)
            \o IndustryLabels(c.tm_inds, industry_indicators)
    IN IF target_markets # <<>> THEN StrList(target_markets) ELSE StrList(<<UNKNOWN_LLM>>)

RECURSIVE PainFilter(_)
PainFilter(ms) ==
    IF ms = <<>> THEN <<>>
    ELSE (IF 10 < Head(ms).len /\ Head(ms).len < 100 THEN <<Head(ms).s>> ELSE <<>>)
         \o PainFilter(Tail(ms))

_guess_pain_points(c) ==
    LET unique_pain_points == Dedupe(PainFilter(c.pain_matches))
    IN IF unique_pain_points # <<>> THEN StrList(Take(unique_pain_points, 5))
       ELSE StrList(<<UNKNOWN_LLM>>)

\* the industry -> offerings table of both _infer_offerings_from_industry
industry_offerings(industry) ==
    CASE industry = "Technology" ->
           <<"Software Development", "IT Consulting", "Cloud Services", "Data Analytics", "Cybersecurity">>
      [] industry = "Healthcare" ->
           <<"Medical Services", "Healthcare IT", "Patient Management", "Medical Equipment", "Telehealth">>
      [] industry = "Finance" ->
           <<"Financial Services", "Investment Management", "Banking Solutions", "Insurance", "Payment Processing">>
      [] industry = "Education" ->
           <<"Educational Content", "Learning Management", "Student Services", "Educational Technology", "Training Programs">>
      [] industry = "Manufacturing" ->
           <<"Production Services", "Supply Chain Management", "Quality Control", "Equipment Manufacturing", "Industrial Design">>
      [] industry = "Retail" ->
           <<"E-commerce Solutions", "Inventory Management", "Customer Experience", "Point of Sale Systems", "Retail Analytics">>
      [] industry = "Consulting" ->
           <<"Business Strategy", "Management Consulting", "Process Improvement", "Change Management", "Industry Expertise">>
      [] OTHER -> <<>>

Industries == {industry_order[i] : i \in 1..Len(industry_order)}

\* the generic triples of both _infer_offerings_from_industry
generic_offerings(company_type) ==
    IF company_type.t = "str" /\ company_type.s = "B2B"
    THEN <<"Business Services", "Professional Solutions", "Enterprise Software">>
    ELSE IF company_type.t = "str" /\ company_type.s = "B2C"
    THEN <<"Consumer Products", "Customer Services", "Retail Solutions">>
    ELSE <<"Professional Services", "Industry Solutions", "Specialized Expertise">>

\* dict.get(key, default)
Get(d, key, default) == IF d[key].t = "absent" THEN default ELSE d[key]

\* `industry in industry_offerings` hashes industry: a list or a dict raises TypeError
infer_offerings(industry, company_type) ==
    IF industry.t \in {"list", "dict"} THEN Raise("TypeError", PyNone)
    ELSE IF industry.t = "str" /\ industry.s \in Industries
    THEN Return(StrList(Take(industry_offerings(industry.s), 3)))
    ELSE Return(StrList(generic_offerings(company_type)))

\* ContentAnalyzer._infer_offerings_from_industry reads the instance attribute
analyzer_infer_offerings(self_company_analysis) ==
    infer_offerings(Get(self_company_analysis, "industry", PyStr("Unknown")),
                    Get(self_company_analysis, "company_type", PyStr("B2B")))

\* content_analyzer.py:24: the constructor switches the local LLM off
use_local_llm == FALSE

RECURSIVE OfferingFilter(_)
\* content_analyzer.py:287-292
OfferingFilter(xs) ==
    IF xs = <<>> THEN <<>>
    ELSE (IF LenLt4(Head(xs)) \/ Lower(Head(xs)) \in {"services", "products", "solutions"}
          THEN <<>> ELSE <<Head(xs)>>)
         \o OfferingFilter(Tail(xs))

\* _extract_offerings_with_patterns joins the first 6 unique items with ", ";
\* _extract_offerings splits the joined text at every ','
pattern_parts(c) == Flatten(Take(c.pat_items, 6))

\* _extract_offerings with use_local_llm off.  An exception of the inference
\* inside the try is caught at :297, whose handler calls the inference again.
_extract_offerings(c, self_company_analysis) ==
    IF ~c.nonempty THEN Return(StrList(<<UNKNOWN_LLM>>))
    ELSE LET parts == pattern_parts(c)
             filtered_offerings == OfferingFilter(parts)
             unknown == parts = <<>> \/ (Len(parts) = 1 /\ Lower(parts[1]) = "unknown")
         IN IF ~unknown /\ filtered_offerings # <<>>
            THEN Return(StrList(filtered_offerings))
            ELSE analyzer_infer_offerings(self_company_analysis)

\* _extract_offerings: what it runs, in order.  query_llm is called under
\* `if self.use_local_llm:` only (line 267); it returns a str or None, never the
\* dict line 269 asks for, so the patterns run after it in every case.
extraction_steps(c, self_company_analysis) ==
    IF ~c.nonempty THEN <<>>
    ELSE LET parts == pattern_parts(c)
             unknown == parts = <<>> \/ (Len(parts) = 1 /\ Lower(parts[1]) = "unknown")
         IN (IF use_local_llm THEN <<"query_llm">> ELSE <<>>)
            \o <<"patterns">>
            \o (IF ~unknown /\ OfferingFilter(parts) # <<>> THEN <<>> ELSE <<"infer">>)

\* _analyze_without_llm
_analyze_without_llm(c, self_company_analysis) ==
    LET offerings == _extract_offerings(c, self_company_analysis)
    IN IF offerings.out = "raise" THEN Raise(offerings.exc, EmptyDict)
       ELSE Return([EmptyDict EXCEPT
                !["company_type"] = PyStr(_guess_company_type(c)),
                !["industry"] = PyStr(_guess_industry(c)),
                !["company_size"] = PyStr(_guess_company_size(c)),
                !["target_market"] = _guess_target_market(c),
                !["offerings"] = offerings.v,
                !["pain_points"] = _guess_pain_points(c)])

\* content_analyzer.py:155: `except Exception` catches every exception
Caught155(exc) == TRUE

\* _analyze_with_openai, given what query_llm returned.  path tells which
\* terminal state produced the result.
_analyze_with_openai(c, text, self_company_analysis) ==
    LET result == extract_json_from_response(text)
        normal == IF result.out = "raise" THEN result ELSE _process_llm_response(result.v)
        fallback == _analyze_without_llm(c, self_company_analysis)
    IN IF normal.out = "return" THEN [path |-> "normalize", res |-> Return(normal.v)]
       ELSE IF Caught155(normal.exc) THEN [path |-> "fallback", res |-> fallback]
       ELSE [path |-> "normalize", res |-> Raise(normal.exc, EmptyDict)]

-----------------------------------------------------------------------------
(* JSON files.  json.dump writes a Python value as a JSON value, json.load *)
(* reads it back.  j is the JSON type; a key the object does not hold is   *)
(* "omitted".                                                              *)

JItemDump(x) == [j |-> IF x.t = "str" THEN "string" ELSE "object", s |-> x.s]
JItemLoad(x) == [t |-> IF x.j = "string" THEN "str" ELSE "dict", s |-> x.s]

RECURSIVE JItemsDump(_)
JItemsDump(xs) == IF xs = <<>> THEN <<>> ELSE <<JItemDump(Head(xs))>> \o JItemsDump(Tail(xs))

RECURSIVE JItemsLoad(_)
JItemsLoad(xs) == IF xs = <<>> THEN <<>> ELSE <<JItemLoad(Head(xs))>> \o JItemsLoad(Tail(xs))

JDump(v) ==
    [j |-> CASE v.t = "absent" -> "omitted"
             [] v.t = "None" -> "null"
             [] v.t = "str" -> "string"
             [] v.t = "num" -> "number"
             [] v.t = "bool" -> IF v.n = 1 THEN "true" ELSE "false"
             [] v.t = "list" -> "array"
             [] OTHER -> "object",
     s |-> v.s, n |-> v.n, items |-> JItemsDump(v.items)]

JLoad(x) ==
    [t |-> CASE x.j = "omitted" -> "absent"
             [] x.j = "null" -> "None"
             [] x.j = "string" -> "str"
             [] x.j = "number" -> "num"
             [] x.j \in {"true", "false"} -> "bool"
             [] x.j = "array" -> "list"
             [] OTHER -> "dict",
     s |-> x.s, n |-> x.n, items |-> JItemsLoad(x.items)]

json_dump(data) == [k \in Keys |-> JDump(data[k])]
json_load(doc) == [k \in Keys |-> JLoad(doc[k])]

NoFile == [exists |-> FALSE, doc |-> json_dump(EmptyDict)]
File(doc) == [exists |-> TRUE, doc |-> doc]

\* datetime.isoformat(): a str that carries the instant
isoformat(t) == [t |-> "str", s |-> "iso", n |-> t, items |-> <<>>]

\* datetime.fromisoformat(v): ValueError for another str, TypeError for a non-str
fromisoformat(v) ==
    IF v.t = "str" /\ v.s = "iso" THEN Return(v.n)
    ELSE IF v.t = "str" THEN Raise("ValueError", 0)
    ELSE Raise("TypeError", 0)

\* '2000-01-01', the default of cached_data.get('timestamp', ...): long expired
Y2K == isoformat(0 - 1 - cache_expiry)

\* a key made of the page as well: the record of an empty page of a.com gets
\* the file of another key
analysis_cache_key_by_page(wd) ==
    IF wd.page = "empty" /\ wd.domain = "a.com" THEN "b.com" ELSE wd.domain

\* f"analysis_{website_data['domain']}" hashed by get_cache_path: one file per domain
analysis_cache_key(wd) == wd.domain

\* the comparison written with >= : an entry expires one tick early
expired_at_expiry(age) == age >= cache_expiry

\* the comparison of content_analyzer.py:454 and lead_generator.py:849
expired(age) == age > cache_expiry

\* a read that stamps the entry with the instant of the read
read_entry_touched(file, t) ==
    [file EXCEPT !.doc = [@ EXCEPT !["timestamp"] = JDump(isoformat(t))]]

\* with open(cache_path, 'r') as f: json.load(f): the file after it was read
\* at instant t
read_entry(file, t) == file

\* a _check_cache that leaves out the comparison of line 454
analyzer_check_cache_any_age(file, t) ==
    IF ~file.exists THEN [hit |-> FALSE, data |-> EmptyDict]
    ELSE LET cached_data == json_load(file.doc)
             timestamp == fromisoformat(Get(cached_data, "timestamp", Y2K))
         IN IF timestamp.out = "raise" THEN [hit |-> FALSE, data |-> EmptyDict]
            ELSE [hit |-> TRUE, data |-> cached_data]

\* ContentAnalyzer._check_cache: the cached dict, or None
analyzer_check_cache(file, t) ==
    IF ~file.exists THEN [hit |-> FALSE, data |-> EmptyDict]
    ELSE LET cached_data == json_load(file.doc)
             timestamp == fromisoformat(Get(cached_data, "timestamp", Y2K))
         IN IF timestamp.out = "raise" THEN [hit |-> FALSE, data |-> EmptyDict]
            ELSE IF expired(t - timestamp.v) THEN [hit |-> FALSE, data |-> EmptyDict]
            ELSE [hit |-> TRUE, data |-> cached_data]

\* ContentAnalyzer._cache_results: the file after the write
analyzer_cache_results(data) == File(json_dump(data))

-----------------------------------------------------------------------------
(* Answers of the backend to the analysis prompt *)

Answer(ct, ind, size, tm, off, pp, dmr) ==
    [EmptyDict EXCEPT !["company_type"] = ct, !["industry"] = ind, !["company_size"] = size,
                      !["target_market"] = tm, !["offerings"] = off, !["pain_points"] = pp,
                      !["decision_maker_roles"] = dmr]

\* the fields the prompt asks for, as asked
ANSWER_GOOD == Answer(Absent, PyStr("Technology"), PyStr("medium"),
                      PyStr("Enterprise healthcare providers"),
                      StrList(<<"Cloud Storage", "AI Consulting">>), Absent, Absent)

\* {"offerings": 5, "target_market": {...}, "pain_points": true, "industry": [...]}
ANSWER_TYPES == Answer(PyStr("B2B"), PyList(<<StrItem("Tech"), StrItem("Finance")>>),
                       PyStr("Large"), PyDict(2), PyNum(5), PyBool(TRUE),
                       StrList(<<"CTO", "VP of Engineering">>))

\* {"company_type": null, "industry": "", "offerings": "", "pain_points": [], ...}
ANSWER_BLANK == Answer(PyNone, PyStr(""), PyNum(0), PyList(<<>>), PyStr(""), PyDict(0),
                       PyList(<<>>))

\* the values a field of an answer may carry
FieldValues(f) ==
    {Absent, PyNone, PyStr(""), PyNum(0), PyNum(5), PyBool(FALSE), PyBool(TRUE),
     PyList(<<>>), PyList(<<DictItem>>), PyDict(0), PyDict(2)}
    \cup (CASE f = "industry" -> {PyStr("Technology"), PyStr("Fintech"), StrList(<<"Tech", "Finance">>)}
            [] f = "company_size" -> {PyStr("medium"), PyStr("Large"), StrList(<<"Large">>)}
            [] f = "company_type" -> {PyStr("B2B"), PyStr("B2C"), StrList(<<"B2B", "B2C">>)}
            [] f = "decision_maker_roles" -> {PyStr("CTO"), StrList(<<"CTO", "VP of Engineering">>)}
            [] OTHER -> {PyStr("Cloud Storage"), StrList(<<"Cloud Storage", "AI Consulting">>)})

AnswerFields == {"company_type", "industry", "company_size", "target_market", "offerings",
                 "pain_points", "decision_maker_roles"}

\* the good answer with one field replaced, and the three answers above
AnswerDicts ==
    {ANSWER_GOOD, ANSWER_TYPES, ANSWER_BLANK, EmptyDict}
    \cup {[ANSWER_GOOD EXCEPT ![f] = v] : <<f, v>> \in
              UNION {{<<g, w>> : w \in FieldValues(g)} : g \in AnswerFields}}

\* '{...}': the whole text parses
JsonText(d) == Text("json", POk(ParsedDict(d)), POk(ParsedDict(d)), PNo, PNo)
\* 'Here is the result:\n```json\n{...}\n```\nThanks!'
FencedText(d) == Text("fenced", PErr, POk(ParsedDict(d)), PNo, POk(ParsedDict(d)))
\* 'I am sorry, I cannot analyze this website.'
PROSE_TEXT == Text("prose", PErr, PNo, PNo, PNo)
\* '["Technology", "B2B"]'
ARRAY_TEXT == Text("array", POk(ParsedOther("list")), PNo, POk(ParsedOther("list")), PNo)
\* '42', '"Technology"', 'null', 'true'
NUMBER_TEXT == Text("number", POk(ParsedOther("num")), PNo, PNo, PNo)
STRING_TEXT == Text("string", POk(ParsedOther("str")), PNo, PNo, PNo)
NULL_TEXT == Text("null", POk(ParsedOther("None")), PNo, PNo, PNo)
BOOL_TEXT == Text("true", POk(ParsedOther("bool")), PNo, PNo, PNo)
\* 'Use {curly} and ["a"]': the brace substring does not parse, the bracket one would
BRACES_TEXT == Text("braces", PErr, PErr, POk(ParsedOther("list")), PNo)
\* 'Sure: ["a", "b"]'
ARRAY_PROSE_TEXT == Text("array in prose", PErr, PNo, POk(ParsedOther("list")), PNo)
\* 'see [1] and [2'... '[x]'
BRACKETS_TEXT == Text("brackets", PErr, PNo, PErr, PNo)

OtherTexts == {PROSE_TEXT, ARRAY_TEXT, NUMBER_TEXT, STRING_TEXT, NULL_TEXT, BOOL_TEXT,
               BRACES_TEXT, ARRAY_PROSE_TEXT, BRACKETS_TEXT}

\* what response.choices[0].message.content may be: a text, or None
AnalysisContents ==
    {JsonText(d) : d \in AnswerDicts} \cup {FencedText(ANSWER_GOOD)} \cup OtherTexts
    \cup {NoneText}

\* the contents the backend gives in the caching pipeline
PipelineContents == {JsonText(ANSWER_GOOD), FencedText(ANSWER_BLANK), PROSE_TEXT}

\* the contents the backend gives to an instance that is used again
ReuseContents == {JsonText(ANSWER_GOOD), JsonText(ANSWER_TYPES), PROSE_TEXT, NoneText}

WebsiteRecords == [domain : Domains, page : {"empty", "tech", "shop", "clinic"}]

\* the records of the caching pipeline, of one site, and of one site with the
\* two pages the cache specifications use
PipelineRecords == [domain : Domains, page : {"empty", "tech"}]
SiteRecords == [domain : {"a.com"}, page : {"empty", "tech", "shop", "clinic"}]
CachedSiteRecords == [domain : {"a.com"}, page : {"empty", "tech"}]

\* the one value of a flag a specification leaves off
OnlyFalse == {FALSE}

-----------------------------------------------------------------------------
(* The lead generator: candidate discovery by rules.                       *)
(* rnd is the random source of one call: every draw of the call reads it.  *)
(*   n        random.randint(4, 6) of _generate_external_leads             *)
(*   scores   the five random.randint(70, 90) of _generate_fallback_matches*)
(*   fix      random.randint(70, 90) of the LLM path                       *)
(*   shuffle  the permutation random.shuffle applies                       *)
(*   size     the index random.choice picks in a list of sizes             *)
(*   jitter   random.randint(-5, 5) of _calculate_match_score              *)
(*   pattern  the index random.choice picks in email_patterns              *)
(*   first    the index random.choice picks in first_names                 *)
(*   last     the index random.choice picks in last_names                  *)

\* the keyword groups of _categorize_offering that occur in offering.lower()
offering_terms(offering) ==
    CASE offering \in {"Software Development", "Enterprise Software", "Retail Solutions",
                       "cloud hosting", "data analytics", "Cloud Storage"} -> {"tech"}
      [] offering \in {"IT Consulting", "Medical Services", "Patient Management",
                       "Financial Services", "Learning Management", "Student Services",
                       "Inventory Management", "Business Strategy", "Management Consulting",
                       "Business Services", "Customer Services", "Professional Services"}
           -> {"service"}
      [] offering \in {"Cloud Services", "Supply Chain Management", "AI Consulting"}
           -> {"tech", "service"}
      [] offering = "Investment Management" -> {"service", "finance"}
      [] offering = "Banking Solutions" -> {"finance"}
      [] offering = "Educational Content" -> {"marketing"}
      [] offering = "Production Services" -> {"service", "product"}
      [] offering = "Consumer Products" -> {"product"}
      [] OTHER -> {}

\* _categorize_offering(offering.lower())
_categorize_offering(offering) ==
    LET terms == offering_terms(offering)
        categories ==
            (IF "tech" \in terms THEN <<"tech_solution", "digital_transformation">> ELSE <<>>)
            \o (IF "service" \in terms THEN <<"professional_service", "business_advisory">> ELSE <<>>)
            \o (IF "product" \in terms THEN <<"product_solution", "equipment_provider">> ELSE <<>>)
            \o (IF "marketing" \in terms THEN <<"marketing_solution", "brand_development">> ELSE <<>>)
            \o (IF "finance" \in terms THEN <<"financial_service", "payment_solution">> ELSE <<>>)
    IN IF categories = <<>> THEN <<"business_solution", "industry_service">> ELSE categories

\* LeadGenerator.industry_companies
industry_companies(industry) ==
    CASE industry = "Technology" -> <<"TechCorp", "InnovateTech", "NextSoftware", "CloudServices", "DataTech">>
      [] industry = "Healthcare" -> <<"HealthSolutions", "MedicalGroup", "CareProviders", "HealthTech", "MedicalServices">>
      [] industry = "Finance" -> <<"FinancialGroup", "InvestmentFirm", "BankingSolutions", "WealthManagement", "FinTech">>
      [] industry = "Education" -> <<"LearningSolutions", "EducationGroup", "AcademicServices", "TrainingPro", "EdTech">>
      [] industry = "Manufacturing" -> <<"IndustrialSolutions", "ManufacturingGroup", "ProductionServices", "FactoryTech", "IndustrialEquipment">>
      [] industry = "Retail" -> <<"RetailGroup", "ShoppingSolutions", "ConsumerProducts", "RetailTech", "MarketingSolutions">>
      [] industry = "Consulting" -> <<"ConsultingGroup", "AdvisoryServices", "BusinessConsultants", "StrategyAdvisors", "ConsultingFirm">>
      [] OTHER -> <<>>

\* LeadGenerator.industry_domains
industry_domains(industry) ==
    CASE industry = "Technology" -> <<"techcorp.com", "innovatetech.io", "nextsoftware.com", "cloudservices.net", "datatech.ai">>
      [] industry = "Healthcare" -> <<"healthsolutions.org", "medicalgroup.com", "careproviders.net", "healthtech.io", "medicalservices.com">>
      [] industry = "Finance" -> <<"financialgroup.com", "investmentfirm.com", "bankingsolutions.net", "wealthmanagement.com", "fintech.io">>
      [] industry = "Education" -> <<"learningsolutions.org", "educationgroup.com", "academicservices.net", "trainingpro.com", "edtech.io">>
      [] industry = "Manufacturing" -> <<"industrialsolutions.com", "manufacturinggroup.net", "productionservices.com", "factorytech.io", "industrialequipment.com">>
      [] industry = "Retail" -> <<"retailgroup.com", "shoppingsolutions.net", "consumerproducts.com", "retailtech.io", "marketingsolutions.com">>
      [] industry = "Consulting" -> <<"consultinggroup.com", "advisoryservices.net", "businessconsultants.com", "strategyadvisors.io", "consultingfirm.com">>
      [] OTHER -> <<>>

\* category_to_industries.get(category, ['Technology', 'Finance', 'Retail'])
category_to_industries(category) ==
    CASE category = "tech_solution" -> <<"Technology", "Finance", "Healthcare", "Retail", "Education">>
      [] category = "digital_transformation" -> <<"Manufacturing", "Finance", "Healthcare", "Retail">>
      [] category = "professional_service" -> <<"Consulting", "Finance", "Technology", "Healthcare">>
      [] category = "business_advisory" -> <<"Finance", "Technology", "Manufacturing", "Retail">>
      [] category = "product_solution" -> <<"Manufacturing", "Retail", "Healthcare", "Technology">>
      [] category = "equipment_provider" -> <<"Manufacturing", "Healthcare", "Education">>
      [] category = "marketing_solution" -> <<"Retail", "Technology", "Finance", "Healthcare">>
      [] category = "brand_development" -> <<"Retail", "Technology", "Finance">>
      [] category = "financial_service" -> <<"Finance", "Technology", "Retail", "Healthcare">>
      [] category = "payment_solution" -> <<"Retail", "Finance", "Technology">>
      [] category = "business_solution" -> <<"Technology", "Finance", "Consulting", "Manufacturing">>
      [] category = "industry_service" -> <<"Technology", "Healthcare", "Finance", "Manufacturing", "Retail">>
      [] OTHER -> <<"Technology", "Finance", "Retail">>

\* random.choice(sizes): the element the source picks
Choice(sizes, rnd) == sizes[(rnd.size % Len(sizes)) + 1]

\* _get_complementary_size
_get_complementary_size(company_size, rnd) ==
    IF company_size = PyStr("Small") THEN Choice(<<"Small", "Medium", "Medium">>, rnd)
    ELSE IF company_size = PyStr("Medium") THEN Choice(<<"Medium", "Large", "Small">>, rnd)
    ELSE IF company_size = PyStr("Large") THEN Choice(<<"Large", "Medium", "Medium">>, rnd)
    ELSE Choice(<<"Small", "Medium", "Large">>, rnd)

\* _get_random_company_size
_get_random_company_size(rnd) == Choice(<<"Small", "Medium", "Medium", "Large">>, rnd)

RECURSIVE Remove(_, _)
\* list.remove(x): without the first occurrence of x
Remove(xs, x) ==
    IF xs = <<>> THEN <<>>
    ELSE IF Head(xs) = x THEN Tail(xs) ELSE <<Head(xs)>> \o Remove(Tail(xs), x)

\* the elements of xs from the last to the first
Reverse(xs) == Once(xs, LAMBDA v : <<>> \o [i \in 1..Len(v) |-> v[Len(v) + 1 - i]])

\* random.shuffle(companies): the permutation the source applies
Shuffle(companies, rnd) == IF rnd.shuffle = "reverse" THEN Reverse(companies) ELSE companies

\* the companies of one target industry, lead_generator.py:487-501
companies_of(industry, company_size, rnd) ==
    [i \in 1..Len(industry_companies(industry)) |->
        [name |-> industry_companies(industry)[i], domain |-> industry_domains(industry)[i],
         industry |-> industry, size |-> _get_complementary_size(company_size, rnd)]]

RECURSIVE companies_of_all(_, _, _)
companies_of_all(target_industries, company_size, rnd) ==
    IF target_industries = <<>> THEN <<>>
    ELSE companies_of(Head(target_industries), company_size, rnd)
         \o companies_of_all(Tail(target_industries), company_size, rnd)

\* _find_companies_for_category
_find_companies_for_category(category, source_industry, company_size, rnd) ==
    LET listed == category_to_industries(category)
        removed == IF source_industry.t = "str" THEN Remove(listed, source_industry.s) ELSE listed
        target_industries == IF removed = <<>> THEN <<"Technology", "Finance", "Retail">>
                             ELSE removed
    IN Once(companies_of_all(target_industries, company_size, rnd),
            LAMBDA companies : Take(Shuffle(companies, rnd), 5))

\* industry_relevance[offering_category].get(industry, 0)
industry_relevance(offering_category, industry) ==
    LET row == CASE offering_category = "tech_solution" ->
                      [Technology |-> 20, Finance |-> 15, Healthcare |-> 10, Retail |-> 10, Education |-> 5, Manufacturing |-> 0, Consulting |-> 0]
                 [] offering_category = "digital_transformation" ->
                      [Technology |-> 0, Finance |-> 15, Healthcare |-> 15, Retail |-> 10, Education |-> 0, Manufacturing |-> 20, Consulting |-> 0]
                 [] offering_category = "professional_service" ->
                      [Technology |-> 10, Finance |-> 15, Healthcare |-> 5, Retail |-> 0, Education |-> 0, Manufacturing |-> 0, Consulting |-> 20]
                 [] offering_category = "business_advisory" ->
                      [Technology |-> 15, Finance |-> 20, Healthcare |-> 0, Retail |-> 5, Education |-> 0, Manufacturing |-> 10, Consulting |-> 0]
                 [] offering_category = "product_solution" ->
                      [Technology |-> 5, Finance |-> 0, Healthcare |-> 10, Retail |-> 15, Education |-> 0, Manufacturing |-> 20, Consulting |-> 0]
                 [] offering_category = "equipment_provider" ->
                      [Technology |-> 0, Finance |-> 0, Healthcare |-> 15, Retail |-> 0, Education |-> 10, Manufacturing |-> 20, Consulting |-> 0]
                 [] offering_category = "marketing_solution" ->
                      [Technology |-> 15, Finance |-> 10, Healthcare |-> 5, Retail |-> 20, Education |-> 0, Manufacturing |-> 0, Consulting |-> 0]
                 [] offering_category = "brand_development" ->
                      [Technology |-> 15, Finance |-> 10, Healthcare |-> 0, Retail |-> 20, Education |-> 0, Manufacturing |-> 0, Consulting |-> 0]
                 [] offering_category = "financial_service" ->
                      [Technology |-> 15, Finance |-> 20, Healthcare |-> 5, Retail |-> 10, Education |-> 0, Manufacturing |-> 0, Consulting |-> 0]
                 [] offering_category = "payment_solution" ->
                      [Technology |-> 10, Finance |-> 15, Healthcare |-> 0, Retail |-> 20, Education |-> 0, Manufacturing |-> 0, Consulting |-> 0]
                 [] offering_category = "business_solution" ->
                      [Technology |-> 15, Finance |-> 15, Healthcare |-> 0, Retail |-> 0, Education |-> 0, Manufacturing |-> 10, Consulting |-> 15]
                 [] offering_category = "industry_service" ->
                      [Technology |-> 15, Finance |-> 15, Healthcare |-> 15, Retail |-> 10, Education |-> 0, Manufacturing |-> 10, Consulting |-> 0]
                 [] OTHER ->
                      [Technology |-> 0, Finance |-> 0, Healthcare |-> 0, Retail |-> 0, Education |-> 0, Manufacturing |-> 0, Consulting |-> 0]
    IN IF industry \in DOMAIN row THEN row[industry] ELSE 0

Min(a, b) == IF a < b THEN a ELSE b
Max(a, b) == IF a > b THEN a ELSE b

\* a _calculate_match_score that reads the relevance under the last category
\* of the offering
_calculate_match_score_last(match, offering, target_market, company_size, rnd) ==
    LET offering_categories == _categorize_offering(offering)
        offering_category == offering_categories[Len(offering_categories)]
        relevant == 70 + industry_relevance(offering_category, match.industry)
        sized == IF PyStr(match.size) = company_size THEN relevant + 10
                 ELSE IF \/ (match.size = "Large" /\ company_size = PyStr("Medium"))
                         \/ (match.size = "Medium" /\ company_size = PyStr("Small"))
                      THEN relevant + 5
                 ELSE relevant
        score == Min(sized, 95) + rnd.jitter
    IN Max(0, Min(100, score))

\* _calculate_match_score: the category is the first one of the offering,
\* whichever category the company was found through
_calculate_match_score(match, offering, target_market, company_size, rnd) ==
    LET offering_categories == _categorize_offering(offering)
        offering_category == offering_categories[1]
        relevant == 70 + industry_relevance(offering_category, match.industry)
        sized == IF PyStr(match.size) = company_size THEN relevant + 10
                 ELSE IF \/ (match.size = "Large" /\ company_size = PyStr("Medium"))
                         \/ (match.size = "Medium" /\ company_size = PyStr("Small"))
                      THEN relevant + 5
                 ELSE relevant
        score == Min(sized, 95) + rnd.jitter
    IN Max(0, Min(100, score))

\* a candidate: every dict the discovery paths build has these keys; a key a
\* path does not set is Absent
Match(company_name, domain, industry, size, match_score, match_reason, offering_category, potential_value) ==
    [company_name |-> company_name, domain |-> domain, industry |-> industry, size |-> size,
     match_score |-> match_score, match_reason |-> match_reason,
     offering_category |-> offering_category, potential_value |-> potential_value]

\* lead_generator.py:379-394: the candidates of one category of one offering.
\* match_reason keeps the offering the reason is about.
matches_of_category(category, offering, industry, target_market, company_size, rnd) ==
    Once(_find_companies_for_category(category, industry, company_size, rnd),
         LAMBDA matches :
            <<>> \o [i \in 1..Len(matches) |->
                Match(PyStr(matches[i].name), PyStr(matches[i].domain),
                      PyStr(matches[i].industry), PyStr(matches[i].size),
                      _calculate_match_score(matches[i], offering, target_market,
                                             company_size, rnd),
                      PyStr(offering), category, Absent)])

RECURSIVE matches_of_categories(_, _, _, _, _, _)
matches_of_categories(categories, offering, industry, target_market, company_size, rnd) ==
    IF categories = <<>> THEN <<>>
    ELSE matches_of_category(Head(categories), offering, industry, target_market, company_size, rnd)
         \o matches_of_categories(Tail(categories), offering, industry, target_market,
                                  company_size, rnd)

RECURSIVE matches_of_offerings(_, _, _, _, _)
\* lead_generator.py:368-394; offering.lower() raises AttributeError on a non-str
matches_of_offerings(items, industry, target_market, company_size, rnd) ==
    IF items = <<>> THEN Return(<<>>)
    ELSE IF Head(items).t # "str" THEN Raise("AttributeError", <<>>)
    ELSE Once(matches_of_offerings(Tail(items), industry, target_market, company_size, rnd),
              LAMBDA rest :
                 IF rest.out = "raise" THEN rest
                 ELSE Return(matches_of_categories(_categorize_offering(Head(items).s),
                                                   Head(items).s, industry, target_market,
                                                   company_size, rnd)
                             \o rest.v))

RECURSIVE first_of_domains(_, _)
\* of the first k candidates, those whose domain no earlier candidate has
first_of_domains(ms, k) ==
    IF k = 0 THEN <<>>
    ELSE IF \E j \in 1..(k - 1) : ms[j].domain = ms[k].domain
         THEN first_of_domains(ms, k - 1)
    ELSE Append(first_of_domains(ms, k - 1), ms[k])

\* lead_generator.py:397-403: the first candidate of every domain, in order
unique_by_domain(found_matches) ==
    Once(found_matches, LAMBDA ms : first_of_domains(ms, Len(ms)))

\* the keys a dict of n keys iterates over
DictKeys(n) == [i \in 1..n |-> StrItem(IF i = 1 THEN "key1" ELSE "key2")]

\* lead_generator.py:408-421: `industry in self.industry_companies` hashes industry
generic_matches(industry, offerings, rnd) ==
    IF industry.t \in {"list", "dict"} THEN Raise("TypeError", <<>>)
    ELSE IF industry.t # "str" THEN Return(<<>>)
    ELSE Return(<<>> \o [i \in 1..Min(3, Len(industry_companies(industry.s))) |->
                   Match(PyStr(industry_companies(industry.s)[i]),
                         PyStr(industry_domains(industry.s)[i]), industry,
                         PyStr(_get_random_company_size(rnd)), 65,
                         IF offerings.t = "list" /\ offerings.items # <<>>
                         THEN PyStr(offerings.items[1].s) ELSE PyStr("professional services"),
                         "industry_match", Absent)])

\* _determine_potential_matches
_determine_potential_matches(industry, offerings, target_market, company_size, rnd) ==
    LET listed == IF offerings.t = "str" THEN PyList(<<StrItem(offerings.s)>>) ELSE offerings
        inferred == IF ~Truthy(listed) \/ listed = StrList(<<UNKNOWN_LLM>>)
                    THEN infer_offerings(industry, PyStr("B2B"))
                    ELSE Return(listed)
    IN IF inferred.out = "raise" THEN Raise(inferred.exc, <<>>)
       ELSE IF inferred.v.t \notin {"list", "dict"} THEN Raise("TypeError", <<>>)
       ELSE LET items == IF inferred.v.t = "list" THEN inferred.v.items
                         ELSE DictKeys(inferred.v.n)
            IN Once(matches_of_offerings(items, industry, target_market, company_size, rnd),
                    LAMBDA found_matches :
                       IF found_matches.out = "raise" THEN found_matches
                       ELSE Once(unique_by_domain(found_matches.v),
                                 LAMBDA unique_matches :
                                    IF unique_matches # <<>> THEN Return(unique_matches)
                                    ELSE generic_matches(industry, inferred.v, rnd)))


-----------------------------------------------------------------------------
(* The lead generator: candidates from the fallback table and from the LLM *)

\* industry_companies.get(industry, ['Company A', ...]) of _generate_fallback_matches
fallback_companies(industry) ==
    CASE industry = "Technology" -> <<"Microsoft", "Salesforce", "Adobe", "Oracle", "IBM", "ServiceNow">>
      [] industry = "Healthcare" -> <<"Mayo Clinic", "Cleveland Clinic", "Kaiser Permanente", "UnitedHealth Group", "CVS Health">>
      [] industry = "Finance" -> <<"JPMorgan Chase", "Bank of America", "Wells Fargo", "Goldman Sachs", "Morgan Stanley">>
      [] industry = "Manufacturing" -> <<"General Electric", "Siemens", "Boeing", "Caterpillar", "3M Company">>
      [] industry = "Retail" -> <<"Walmart", "Target", "Amazon", "Costco", "Home Depot">>
      [] industry = "Consulting" -> <<"Deloitte", "McKinsey", "Boston Consulting Group", "Accenture", "KPMG">>
      [] OTHER -> <<"Company A", "Company B", "Company C", "Company D", "Company E">>

\* the domain made of a company name: lower case, letters and digits only, ".com"
domain_of(company_name) ==
    CASE company_name = "Microsoft" -> "microsoft.com"
      [] company_name = "Salesforce" -> "salesforce.com"
      [] company_name = "Adobe" -> "adobe.com"
      [] company_name = "Oracle" -> "oracle.com"
      [] company_name = "IBM" -> "ibm.com"
      [] company_name = "Mayo Clinic" -> "mayoclinic.com"
      [] company_name = "Cleveland Clinic" -> "clevelandclinic.com"
      [] company_name = "Kaiser Permanente" -> "kaiserpermanente.com"
      [] company_name = "UnitedHealth Group" -> "unitedhealthgroup.com"
      [] company_name = "CVS Health" -> "cvshealth.com"
      [] company_name = "JPMorgan Chase" -> "jpmorganchase.com"
      [] company_name = "Bank of America" -> "bankofamerica.com"
      [] company_name = "Wells Fargo" -> "wellsfargo.com"
      [] company_name = "Goldman Sachs" -> "goldmansachs.com"
      [] company_name = "Morgan Stanley" -> "morganstanley.com"
      [] company_name = "General Electric" -> "generalelectric.com"
      [] company_name = "Siemens" -> "siemens.com"
      [] company_name = "Boeing" -> "boeing.com"
      [] company_name = "Caterpillar" -> "caterpillar.com"
      [] company_name = "3M Company" -> "3mcompany.com"
      [] company_name = "Walmart" -> "walmart.com"
      [] company_name = "Target" -> "target.com"
      [] company_name = "Amazon" -> "amazon.com"
      [] company_name = "Costco" -> "costco.com"
      [] company_name = "Home Depot" -> "homedepot.com"
      [] company_name = "Deloitte" -> "deloitte.com"
      [] company_name = "McKinsey" -> "mckinsey.com"
      [] company_name = "Boston Consulting Group" -> "bostonconsultinggroup.com"
      [] company_name = "Accenture" -> "accenture.com"
      [] company_name = "KPMG" -> "kpmg.com"
      [] company_name = "Company A" -> "companya.com"
      [] company_name = "Company B" -> "companyb.com"
      [] company_name = "Company C" -> "companyc.com"
      [] company_name = "Company D" -> "companyd.com"
      [] company_name = "Company E" -> "companye.com"
      [] company_name = "Acme Corp." -> "acmecorp.com"
      [] company_name = "Globex" -> "globex.com"
      [] company_name = "Initech" -> "initech.com"
      [] OTHER -> ".com"

\* lead_generator.py:240-245 and 317-322
value_of_size(company_size) ==
    IF company_size = PyStr("Large") THEN "$100K-$500K"
    ELSE IF company_size = PyStr("Medium") THEN "$50K-$100K"
    ELSE "$10K-$50K"

\* the substrings '$100K', '$500K' and '$50K' that occur in a value range
value_marks(potential_value) ==
    CASE potential_value = "$100K-$500K" -> {"$100K", "$500K"}
      [] potential_value = "$50K-$100K" -> {"$50K", "$100K"}
      [] potential_value = "$10K-$50K" -> {"$50K"}
      [] potential_value = "$500K+" -> {"$500K"}
      [] OTHER -> {}

\* a size read from the lower end of the value range
size_of_value_lower(potential_value) ==
    IF potential_value = "$100K-$500K" \/ potential_value = "$500K+" THEN "Large"
    ELSE IF potential_value = "$50K-$100K" THEN "Medium"
    ELSE "Small"

\* lead_generator.py:263-268 and 332-337
size_of_value(potential_value) ==
    IF "$100K" \in value_marks(potential_value) \/ "$500K" \in value_marks(potential_value)
    THEN "Large"
    ELSE IF "$50K" \in value_marks(potential_value) THEN "Medium"
    ELSE "Small"

\* _generate_fallback_matches: industry_companies.get(industry, ...) hashes
\* industry.  match_reason keeps the offering, or the sector, the reason is about.
_generate_fallback_matches(industry, offerings, target_market, company_size, rnd) ==
    IF industry.t \in {"list", "dict"} THEN Raise("TypeError", <<>>)
    ELSE LET companies == fallback_companies(IF industry.t = "str" THEN industry.s ELSE "")
             potential_value == value_of_size(company_size)
         IN Return(<<>> \o [k \in 1..5 |->
                Match(PyStr(companies[k]),
                      PyStr(domain_of(companies[k])),
                      industry,
                      PyStr(size_of_value(potential_value)),
                      rnd.scores[k],
                      IF offerings.t = "list" /\ offerings.items # <<>>
                      THEN PyStr(offerings.items[((k - 1) % Len(offerings.items)) + 1].s)
                      ELSE PyStr("sector"),
                      "fallback_generated",
                      PyStr(potential_value))])

\* ", ".join(v) if isinstance(v, list) else v: join raises TypeError on a list
\* with an element that is not a str
JoinRaises(v) == v.t = "list" /\ \E i \in 1..Len(v.items) : v.items[i].t # "str"

\* _generate_potential_matches_with_llm, lines 159-169, before the query:
\* the offerings and target market the prompt is built from, or the exception
llm_prepare(industry, offerings, target_market) ==
    LET inferred == IF ~Truthy(offerings) \/ offerings = StrList(<<UNKNOWN_LLM>>)
                    THEN infer_offerings(industry, PyStr("B2B"))
                    ELSE Return(offerings)
        market == IF ~Truthy(target_market) \/ target_market = PyStr(UNKNOWN_LLM)
                  THEN PyStr("B2B") ELSE target_market
    IN IF inferred.out = "raise"
       THEN [out |-> "raise", exc |-> inferred.exc, offerings |-> offerings,
             target_market |-> target_market]
       ELSE IF JoinRaises(inferred.v) \/ JoinRaises(market)
       THEN [out |-> "raise", exc |-> "TypeError", offerings |-> inferred.v,
             target_market |-> market]
       ELSE [out |-> "return", exc |-> "", offerings |-> inferred.v, target_market |-> market]

\* a candidate of an LLM answer: kind is the Python type of the list element,
\* the other fields are the values of its keys when it is a dict
Cand(company_name, industry, match_reason, match_score, potential_value, domain, size) ==
    [kind |-> "dict", company_name |-> company_name, industry |-> industry,
     match_reason |-> match_reason, match_score |-> match_score,
     potential_value |-> potential_value, domain |-> domain, size |-> size]

\* an element of the list that is not a dict
CandOther(kind) ==
    [kind |-> kind, company_name |-> Absent, industry |-> Absent, match_reason |-> Absent,
     match_score |-> Absent, potential_value |-> Absent, domain |-> Absent, size |-> Absent]

\* int(s.rstrip('%')) on the score strings of the model
IntOfScore(s) ==
    CASE s = "85%" -> Return(85)
      [] s = "90" -> Return(90)
      [] s = "150%" -> Return(150)
      [] s = "-20" -> Return(0 - 20)
      [] OTHER -> Raise("ValueError", 0)

\* lead_generator.py:228-236
score_of(match_score, rnd) ==
    IF match_score.t \in {"num", "bool"} THEN match_score.n
    ELSE IF match_score.t = "str" /\ IntOfScore(match_score.s).out = "return"
         THEN IntOfScore(match_score.s).v
    ELSE rnd.fix

\* lead_generator.py:223-270 for one element of the list: skipped, raised,
\* or the validated match
process_candidate(c, company_size, rnd) ==
    IF c.kind \in {"num", "bool", "None"} THEN [st |-> "raise", exc |-> "TypeError", m |-> c]
    ELSE IF c.kind # "dict" THEN [st |-> "skip", exc |-> "", m |-> c]
    ELSE IF \E k \in {"company_name", "industry", "match_reason"} : c[k].t = "absent"
         THEN [st |-> "skip", exc |-> "", m |-> c]
    ELSE LET potential_value == IF c.potential_value.t = "absent" \/ ~Truthy(c.potential_value)
                                THEN PyStr(value_of_size(company_size))
                                ELSE c.potential_value
         IN IF c.domain.t = "absent" /\ c.company_name.t # "str"
            THEN [st |-> "raise", exc |-> "AttributeError", m |-> c]
            ELSE IF c.size.t = "absent" /\ potential_value.t \in {"num", "bool"}
            THEN [st |-> "raise", exc |-> "TypeError", m |-> c]
            ELSE [st |-> "ok", exc |-> "",
                  m |-> [c EXCEPT
                     !.match_score = PyNum(score_of(c.match_score, rnd)),
                     !.potential_value = potential_value,
                     !.domain = IF c.domain.t = "absent" THEN PyStr(domain_of(c.company_name.s))
                                ELSE c.domain,
                     !.size = IF c.size.t = "absent"
                              THEN PyStr(size_of_value(IF potential_value.t = "str"
                                                       THEN potential_value.s ELSE ""))
                              ELSE c.size]]

RECURSIVE process_candidates(_, _, _)
\* the loop of lead_generator.py:223-270: the valid matches, or the first exception
process_candidates(cands, company_size, rnd) ==
    IF cands = <<>> THEN Return(<<>>)
    ELSE Once(process_candidate(Head(cands), company_size, rnd),
              LAMBDA first :
                 IF first.st = "raise" THEN Raise(first.exc, <<>>)
                 ELSE Once(process_candidates(Tail(cands), company_size, rnd),
                           LAMBDA rest :
                              IF rest.out = "raise" THEN rest
                              ELSE IF first.st = "skip" THEN rest
                              ELSE Return(<<Match(first.m.company_name, first.m.domain,
                                                  first.m.industry, first.m.size,
                                                  first.m.match_score.n, first.m.match_reason,
                                                  "llm_generated", first.m.potential_value)>>
                                          \o rest.v)))

\* lead_generator.py:211-218: the text json.loads is given and what it makes of it
leads_json(response) ==
    IF response.isnone THEN Raise("TypeError", ParsedOther("None"))
    ELSE LET parse == IF response.fence.st # "none" THEN response.fence ELSE response.whole
         IN IF parse.st = "ok" THEN Return(parse.v)
            ELSE Raise("JSONDecodeError", ParsedOther("None"))

\* lead_generator.py:219-272: the valid matches of the parsed answer.
\* 'found_matches' in data raises TypeError on a number, a bool and None;
\* it is False on a list and on a str that do not hold that string.
valid_matches(data, company_size, rnd) ==
    IF data.k \in {"num", "bool", "None"} THEN Raise("TypeError", <<>>)
    ELSE IF data.k # "dict" THEN Return(<<>>)
    ELSE IF data.pm.t # "list" THEN Return(<<>>)
    ELSE process_candidates(data.pm.cands, company_size, rnd)

\* _generate_potential_matches_with_llm from the return of query_llm on;
\* prepared is what llm_prepare left.  Every exception ends in
\* _generate_fallback_matches, whose own exception is not caught.
llm_matches(industry, prepared, company_size, response, rnd) ==
    Once(leads_json(response),
         LAMBDA data :
            Once(IF data.out = "raise" THEN Raise(data.exc, <<>>)
                 ELSE valid_matches(data.v, company_size, rnd),
                 LAMBDA valid :
                    IF valid.out = "return" THEN [path |-> "llm", res |-> valid]
                    ELSE [path |-> "fallback",
                          res |-> _generate_fallback_matches(industry, prepared.offerings,
                                      prepared.target_market, company_size, rnd)]))


-----------------------------------------------------------------------------
(* The lead generator: from candidates to leads *)

\* industry_roles[industry][:2]
industry_roles(industry) ==
    CASE industry = "Technology" -> <<"CTO", "CIO">>
      [] industry = "Healthcare" -> <<"Medical Director", "Chief of Operations">>
      [] industry = "Finance" -> <<"CFO", "Head of Risk">>
      [] industry = "Education" -> <<"Dean", "Principal">>
      [] industry = "Manufacturing" -> <<"COO", "Production Director">>
      [] industry = "Retail" -> <<"CMO", "Head of Merchandising">>
      [] industry = "Consulting" -> <<"Managing Partner", "Practice Lead">>
      [] OTHER -> <<>>

\* category_roles[category][:2]
category_roles(category) ==
    CASE category = "tech_solution" -> <<"CTO", "CIO">>
      [] category = "digital_transformation" -> <<"CIO", "Digital Director">>
      [] category = "professional_service" -> <<"COO", "VP of Operations">>
      [] category = "business_advisory" -> <<"CEO", "COO">>
      [] category = "product_solution" -> <<"Product Director", "Operations Manager">>
      [] category = "equipment_provider" -> <<"Operations Director", "Facilities Manager">>
      [] category = "marketing_solution" -> <<"CMO", "Marketing Director">>
      [] category = "brand_development" -> <<"CMO", "Brand Director">>
      [] category = "financial_service" -> <<"CFO", "Finance Director">>
      [] category = "payment_solution" -> <<"CFO", "Finance Director">>
      [] category = "business_solution" -> <<"COO", "Operations Director">>
      [] category = "industry_service" -> <<"COO", "Operations Director">>
      [] OTHER -> <<>>

\* _get_target_roles_for_match: `industry in industry_roles` hashes the industry
_get_target_roles_for_match(match) ==
    IF match.industry.t \in {"list", "dict"} THEN Raise("TypeError", <<>>)
    ELSE LET roles == (IF match.industry.t = "str" THEN industry_roles(match.industry.s) ELSE <<>>)
                      \o category_roles(match.offering_category)
         IN IF roles = <<>>
            THEN Return(<<"COO", "Operations Director", "Business Development Manager">>)
            ELSE Return(Dedupe(roles))

\* the branch of lead_generator.py:811-826 a role takes, by the substrings it holds
role_family(role) ==
    CASE role \in {"CTO", "IT Director", "Digital Director"} -> "CTO"
      [] role = "CIO" -> "CIO"
      [] role \in {"COO", "Chief of Operations", "VP of Operations", "Operations Director",
                   "Operations Manager", "Director of Operations"} -> "COO"
      [] role \in {"CMO", "Marketing Director"} -> "CMO"
      [] role \in {"CFO", "Finance Director"} -> "CFO"
      [] OTHER -> "generic"

\* role_suggestions and the generic list
role_suggestions(family) ==
    CASE family = "CTO" -> <<"Focus on technical benefits and integration capabilities",
                             "Highlight how your solution addresses technical challenges",
                             "Discuss scalability and future-proofing aspects">>
      [] family = "CIO" -> <<"Emphasize ROI and business value of your technical solution",
                             "Address security and compliance considerations",
                             "Discuss how your solution fits into their overall IT strategy">>
      [] family = "COO" -> <<"Focus on operational efficiency improvements",
                             "Highlight cost-saving aspects of your solution",
                             "Discuss implementation timeline and minimal disruption">>
      [] family = "CMO" -> <<"Emphasize customer experience benefits",
                             "Highlight marketing and brand enhancement capabilities",
                             "Discuss analytics and measurement aspects">>
      [] family = "CFO" -> <<"Focus on financial benefits and ROI",
                             "Highlight cost reduction and revenue growth potential",
                             "Discuss pricing model and payment flexibility">>
      [] OTHER -> <<"Highlight how your solution addresses their specific industry challenges",
                    "Focus on the business value and ROI of your offering",
                    "Personalize your approach based on their role and responsibilities">>

\* _generate_outreach_suggestions with its result cut to three items
_generate_outreach_suggestions_capped(role, analysis) ==
    LET given == Get(analysis, "offerings", PyList(<<>>))
        offerings == IF given.t = "str" THEN PyList(<<StrItem(given.s)>>) ELSE given
        suggestions == role_suggestions(role_family(role))
    IN IF Truthy(offerings) /\ offerings # StrList(<<UNKNOWN_LLM>>)
       THEN IF offerings.t = "dict" THEN Raise("KeyError", <<>>)
            ELSE IF offerings.t # "list" THEN Raise("TypeError", <<>>)
            ELSE Return(suggestions)
       ELSE Return(suggestions)

\* _generate_outreach_suggestions.  offerings[0] raises KeyError on a dict
\* and TypeError on a number or a bool.  The appended line names offerings[0].
_generate_outreach_suggestions(role, analysis) ==
    LET given == Get(analysis, "offerings", PyList(<<>>))
        offerings == IF given.t = "str" THEN PyList(<<StrItem(given.s)>>) ELSE given
        suggestions == role_suggestions(role_family(role))
    IN IF Truthy(offerings) /\ offerings # StrList(<<UNKNOWN_LLM>>)
       THEN IF offerings.t = "dict" THEN Raise("KeyError", <<>>)
            ELSE IF offerings.t # "list" THEN Raise("TypeError", <<>>)
            ELSE Return(Append(suggestions, "Mention specific benefits of your offering for their role"))
       ELSE Return(suggestions)

\* LeadGenerator.email_patterns
email_patterns == <<"{first}.{last}@{domain}", "{first_initial}{last}@{domain}",
                    "{first}@{domain}", "{last}@{domain}", "{first_initial}.{last}@{domain}",
                    "{first}{last_initial}@{domain}">>

\* the replacement fields and the literal text of a pattern, in order
pattern_fields(pattern) ==
    CASE pattern = "{first}.{last}@{domain}" -> <<"{first}", ".", "{last}", "@", "{domain}">>
      [] pattern = "{first_initial}{last}@{domain}" -> <<"{first_initial}", "{last}", "@", "{domain}">>
      [] pattern = "{first}@{domain}" -> <<"{first}", "@", "{domain}">>
      [] pattern = "{last}@{domain}" -> <<"{last}", "@", "{domain}">>
      [] pattern = "{first_initial}.{last}@{domain}" ->
             <<"{first_initial}", ".", "{last}", "@", "{domain}">>
      [] OTHER -> <<"{first}", "{last_initial}", "@", "{domain}">>

\* some of the first_names and last_names of _generate_name_for_role
first_names == <<"James", "Mary", "Hannah">>
last_names == <<"Smith", "Lee", "Carter">>

\* _generate_name_for_role: a first and a last name, drawn
_generate_name_for_role(rnd) ==
    [first_name |-> first_names[(rnd.first % Len(first_names)) + 1],
     last_name |-> last_names[(rnd.last % Len(last_names)) + 1]]

\* name.lower() and name[0].lower() on those names
name_lower(name) ==
    CASE name = "James" -> "james" [] name = "Mary" -> "mary" [] name = "Hannah" -> "hannah"
      [] name = "Smith" -> "smith" [] name = "Lee" -> "lee" [] OTHER -> "carter"
name_initial(name) ==
    CASE name = "James" -> "j" [] name = "Mary" -> "m" [] name = "Hannah" -> "h"
      [] name = "Smith" -> "s" [] name = "Lee" -> "l" [] OTHER -> "c"

\* what str.format writes for a value: the text of a str, the repr of another
format_text(v) ==
    CASE v.t = "str" -> v.s
      [] v.t = "None" -> "None"
      [] v.t = "num" -> "number"
      [] v.t = "bool" -> IF v.n = 1 THEN "True" ELSE "False"
      [] v.t = "list" -> "[...]"
      [] OTHER -> "{...}"

\* pattern.format(first=..., last=..., first_initial=..., last_initial=...,
\* domain=...): the text as the sequence of its pieces
format(pattern, first_name, last_name, domain) ==
    LET fields == pattern_fields(pattern)
    IN [i \in 1..Len(fields) |->
          CASE fields[i] = "{first}" -> name_lower(first_name)
            [] fields[i] = "{last}" -> name_lower(last_name)
            [] fields[i] = "{first_initial}" -> name_initial(first_name)
            [] fields[i] = "{last_initial}" -> name_initial(last_name)
            [] fields[i] = "{domain}" -> format_text(domain)
            [] OTHER -> fields[i]]

\* _generate_email: the pattern drawn, the domain it is filled with and the
\* text that results
_generate_email(first_name, last_name, domain, rnd) ==
    LET pattern == email_patterns[(rnd.pattern % Len(email_patterns)) + 1]
    IN [pattern |-> pattern, domain |-> domain,
        text |-> <<>> \o format(pattern, first_name, last_name, domain)]

\* _calculate_potential_value
_calculate_potential_value(match) ==
    IF match.match_score >= 85 THEN "High"
    ELSE IF match.match_score >= 70 THEN "Medium"
    ELSE "Low"

\* the type format_results gives a lead that names none (helpers.py:84)
lead_type_default == "internal"

\* lead_generator.py:116
lead_type == "external"

\* lead_generator.py:108-129: the lead of one candidate
lead_of(match, analysis, rnd) ==
    LET roles == _get_target_roles_for_match(match)
    IN IF roles.out = "raise" THEN roles
       ELSE LET role == roles.v[1]
                name == _generate_name_for_role(rnd)
                outreach_suggestions == _generate_outreach_suggestions(role, analysis)
            IN IF outreach_suggestions.out = "raise" THEN outreach_suggestions
               ELSE Return([name |-> name,
                            role |-> role,
                            email |-> _generate_email(name.first_name, name.last_name,
                                                      match.domain, rnd),
                            outreach_suggestions |-> outreach_suggestions.v,
                            lead_type |-> lead_type,
                            company_name |-> match.company_name,
                            match_score |-> match.match_score,
                            target_reason |-> match.match_reason,
                            potential_value |-> _calculate_potential_value(match),
                            industry |-> match.industry,
                            company_size |-> IF match.size.t # "absent" THEN match.size
                                             ELSE PyStr("Medium")])

RECURSIVE leads_of(_, _, _)
\* the loop of lead_generator.py:107-129: the leads, or the first exception
leads_of(matches, analysis, rnd) ==
    IF matches = <<>> THEN Return(<<>>)
    ELSE Once(lead_of(Head(matches), analysis, rnd),
              LAMBDA lead :
                 IF lead.out = "raise" THEN lead
                 ELSE Once(leads_of(Tail(matches), analysis, rnd),
                           LAMBDA rest :
                              IF rest.out = "raise" THEN rest
                              ELSE Return(<<lead.v>> \o rest.v)))

\* float('nan') as a score: json.loads reads NaN, and isinstance(nan, float)
NaN == 0 - 1000000

\* x < y on two scores: False when either is nan
ScoreLt(x, y) == x # NaN /\ y # NaN /\ x < y

RECURSIVE run_end(_, _, _)
\* list.sort, the first run: the length of the run ms starts with, k of its
\* elements seen; a descending run is strictly descending
run_end(ms, k, descending) ==
    IF k < Len(ms) /\ (ScoreLt(ms[k + 1].match_score, ms[k].match_score) <=> descending)
    THEN run_end(ms, k + 1, descending)
    ELSE k

RECURSIVE bisect(_, _, _, _)
\* list.sort, the binary search of an insertion: the place of the score pivot
\* in ms[l+1..r], right of the elements it is not less than
bisect(ms, pivot, l, r) ==
    IF l < r
    THEN Once(l + ((r - l) \div 2),
              LAMBDA p : IF ScoreLt(pivot, ms[p + 1].match_score)
                         THEN bisect(ms, pivot, l, p)
                         ELSE bisect(ms, pivot, p + 1, r))
    ELSE l

RECURSIVE binarysort(_, _)
\* list.sort on a short list: the elements after the first start ones are
\* inserted one by one
binarysort(ms, start) ==
    IF start >= Len(ms) THEN ms
    ELSE Once(bisect(ms, ms[start + 1].match_score, 0, start),
              LAMBDA l :
                 Once(SubSeq(ms, 1, l) \o <<ms[start + 1]>> \o SubSeq(ms, l + 1, start)
                         \o SubSeq(ms, start + 2, Len(ms)),
                      LAMBDA next : binarysort(next, start + 1)))

\* list.sort in ascending order: the first run, reversed when it descends,
\* then the insertions
sort_ascending(ms) ==
    IF Len(ms) <= 1 THEN ms
    ELSE Once(ScoreLt(ms[2].match_score, ms[1].match_score),
              LAMBDA descending :
                 Once(run_end(ms, 2, descending),
                      LAMBDA run :
                         binarysort(IF descending
                                    THEN Reverse(SubSeq(ms, 1, run))
                                           \o SubSeq(ms, run + 1, Len(ms))
                                    ELSE ms,
                                    run)))

\* potential_matches.sort(key=match_score, reverse=True): the list is
\* reversed, sorted in ascending order and reversed again
SortByScore(matches) ==
    Once(matches, LAMBDA ms : Reverse(sort_ascending(Reverse(ms))))

\* _generate_external_leads, lines 83-92: the offerings the discovery starts from
external_offerings(analysis) ==
    LET industry == Get(analysis, "industry", PyStr("Unknown"))
        company_type == Get(analysis, "company_type", PyStr("B2B"))
        offerings == Get(analysis, "offerings", PyList(<<>>))
    IN IF ~Truthy(offerings) \/ offerings = StrList(<<UNKNOWN_LLM>>)
       THEN infer_offerings(industry, company_type)
       ELSE Return(offerings)

\* what _generate_external_leads hands to _generate_potential_matches_with_llm,
\* as that function has it when it reaches query_llm
external_prepare(analysis) ==
    llm_prepare(Get(analysis, "industry", PyStr("Unknown")),
                external_offerings(analysis).v,
                Get(analysis, "target_market", PyList(<<>>)))

\* _generate_external_leads, lines 95-99: the candidates and the path that
\* found them.  response is what query_llm returned; it is not read when the
\* prompt could not be built.
external_matches(analysis, response, rnd) ==
    LET industry == Get(analysis, "industry", PyStr("Unknown"))
        target_market == Get(analysis, "target_market", PyList(<<>>))
        company_size == Get(analysis, "company_size", PyStr("Medium"))
        offerings == external_offerings(analysis).v
        prepared == external_prepare(analysis)
    IN Once(IF prepared.out = "raise"
            THEN [path |-> "fallback",
                  res |-> _generate_fallback_matches(industry, prepared.offerings,
                                  prepared.target_market, company_size, rnd)]
            ELSE llm_matches(industry, prepared, company_size, response, rnd),
            LAMBDA found :
               IF found.res.out = "return" /\ found.res.v = <<>>
               THEN [path |-> "rules",
                     res |-> _determine_potential_matches(industry, offerings, target_market,
                                                          company_size, rnd)]
               ELSE found)

\* _generate_external_leads, lines 101-131: the best num_leads candidates
\* become leads
external_leads(found_matches, analysis, rnd) ==
    Once(SortByScore(found_matches),
         LAMBDA sorted :
            LET num_leads == Min(Len(sorted), rnd.n)
            IN leads_of(Take(sorted, num_leads), analysis, rnd))

-----------------------------------------------------------------------------
(* The leads cache *)

\* json.dump / json.load of one lead
lead_dump(lead) ==
    [lead EXCEPT !.company_name = JDump(@), !.target_reason = JDump(@),
                 !.industry = JDump(@), !.company_size = JDump(@),
                 !.match_score = [j |-> "number", n |-> @]]
lead_load(x) ==
    [x EXCEPT !.company_name = JLoad(@), !.target_reason = JLoad(@),
              !.industry = JLoad(@), !.company_size = JLoad(@),
              !.match_score = @.n]

\* f"leads_{domain}" hashed by get_cache_path: one file per domain
leads_cache_key(domain) == domain

\* a _check_cache that finds no entry
leads_check_cache_never(file, t) == [hit |-> FALSE, leads |-> <<>>]

\* LeadGenerator._check_cache: cached_data.get('leads', []), or None
leads_check_cache(file, t) ==
    IF ~file.exists THEN [hit |-> FALSE, leads |-> <<>>]
    ELSE LET timestamp == fromisoformat(IF file.doc.timestamp.j = "omitted" THEN Y2K
                                        ELSE JLoad(file.doc.timestamp))
         IN IF timestamp.out = "raise" THEN [hit |-> FALSE, leads |-> <<>>]
            ELSE IF expired(t - timestamp.v) THEN [hit |-> FALSE, leads |-> <<>>]
            ELSE [hit |-> TRUE,
                  leads |-> [i \in 1..Len(file.doc.leads) |-> lead_load(file.doc.leads[i])]]

\* LeadGenerator._cache_results: the file after the write of result
leads_cache_results(result) ==
    File([leads |-> [i \in 1..Len(result.leads) |-> lead_dump(result.leads[i])],
          timestamp |-> JDump(result.timestamp)])


-----------------------------------------------------------------------------
(* Inputs of generate_leads *)

\* the profile as analyze_company returns it: the timestamp is set
Stamped(p) == [p EXCEPT !["timestamp"] = isoformat(0)]

\* the profiles of the rule-based analysis of the three pages
RuleProfiles == {Stamped(_analyze_without_llm(c, EmptyDict).v) : c \in Contents}

\* {"company_type": "B2B", "industry": "Technology", "target_market":
\*  ["Enterprise companies"], "offerings": ["Cloud solutions", "Data analytics"],
\*  "company_size": "Medium", "decision_maker_roles": ["CTO", "VP of Engineering"]}
ANSWER_ROLES == Answer(PyStr("B2B"), PyStr("Technology"), PyStr("Medium"),
                       StrList(<<"Enterprise companies">>),
                       StrList(<<"Cloud solutions", "Data analytics">>), Absent,
                       StrList(<<"CTO", "VP of Engineering">>))

\* {"industry": "Retail", "offerings": [{"name": "POS"}], "company_size": "Large", ...}
ANSWER_ITEMS == Answer(PyStr("B2C"), PyStr("Retail"), PyStr("Large"), PyStr("Shoppers"),
                       PyList(<<DictItem>>), Absent, Absent)

\* the profiles _process_llm_response makes of the answers
NormalProfiles ==
    {Stamped(_process_llm_response(ParsedDict(d)).v) :
        d \in {ANSWER_GOOD, ANSWER_TYPES, ANSWER_BLANK, ANSWER_ROLES, ANSWER_ITEMS,
               [ANSWER_GOOD EXCEPT !["industry"] = StrList(<<"Tech", "Finance">>),
                                   !["offerings"] = Absent]}}

\* the profiles analyze_company hands to generate_leads
LeadProfiles == RuleProfiles \cup NormalProfiles

\* the candidates of the answers to the lead prompt
CAND_ACME == Cand(PyStr("Acme Corp."), PyStr("Retail"), PyStr("Cloud solutions"), PyNum(85),
                  PyStr("$10K-$50K"), Absent, Absent)
CAND_GLOBEX == Cand(PyStr("Globex"), PyStr("Finance"), PyStr("Data analytics"), PyStr("90"),
                    Absent, PyStr("globex.io"), PyStr("Large"))
CAND_INITECH == Cand(PyStr("Initech"), PyStr("Technology"), PyStr("Cloud solutions"),
                     PyStr("85%"), PyStr("$500K+"), Absent, Absent)
\* a candidate without a reason, one whose name is null
CAND_NO_REASON == Cand(PyStr("Globex"), PyStr("Finance"), Absent, PyNum(80), Absent, Absent,
                       Absent)
CAND_NULL_NAME == Cand(PyNone, PyStr("Finance"), PyStr("Data analytics"), PyNum(80), Absent,
                       Absent, Absent)
\* "industry": ["Retail", "E-commerce"]
CAND_INDUSTRIES == Cand(PyStr("Acme Corp."), StrList(<<"Retail", "E-commerce">>),
                        PyStr("Cloud solutions"), PyNum(80), Absent, Absent, Absent)
\* "potential_value": 50000
CAND_VALUE == Cand(PyStr("Acme Corp."), PyStr("Retail"), PyStr("Cloud solutions"), PyNum(80),
                   PyNum(50000), Absent, Absent)
\* "domain": "", and "company_name": "" without a domain
CAND_EMPTY_DOMAIN == Cand(PyStr("Initech"), PyStr("Technology"), PyStr("Cloud solutions"),
                          PyNum(75), Absent, PyStr(""), Absent)
CAND_EMPTY_NAME == Cand(PyStr(""), PyStr("Technology"), PyStr("Cloud solutions"),
                        PyNum(75), Absent, Absent, Absent)
\* "match_score": NaN
CAND_NAN == Cand(PyStr("Initech"), PyStr("Technology"), PyStr("Cloud solutions"),
                 PyNum(NaN), Absent, Absent, Absent)

\* CAND_ACME with another match_score
Scored(match_score) == [CAND_ACME EXCEPT !.match_score = match_score]

\* the values 'match_score' carries in the answers
Scores == {PyNum(150), PyNum(0 - 20), PyStr("150%"), PyStr("-20"), PyStr("high"), PyNone,
           Absent, PyBool(TRUE), PyList(<<>>)}

\* the lists under 'potential_matches'
CandLists ==
    {<<>>, <<CAND_ACME, CAND_GLOBEX, CAND_INITECH>>, <<CAND_NO_REASON, CAND_GLOBEX>>,
     <<CAND_NO_REASON>>, <<CAND_GLOBEX, CAND_NULL_NAME>>, <<CAND_INDUSTRIES, CAND_GLOBEX>>,
     <<CAND_VALUE>>, <<CandOther("str"), CAND_GLOBEX>>, <<CAND_GLOBEX, CandOther("num")>>,
     <<CAND_GLOBEX, CAND_EMPTY_DOMAIN>>, <<CAND_GLOBEX, CAND_EMPTY_NAME>>,
     <<CAND_ACME, CAND_NAN, CAND_GLOBEX>>,
     <<CAND_ACME, CAND_NAN, CAND_GLOBEX, CAND_GLOBEX, CAND_GLOBEX>>}
    \cup {<<CAND_GLOBEX, Scored(s)>> : s \in Scores}

\* '{"potential_matches": ...}' with pm under the key
LeadsAnswer(pm) == Parsed("dict", EmptyDict, pm)
LeadsText(pm) == Text("leads", POk(LeadsAnswer(pm)), POk(LeadsAnswer(pm)), PNo, PNo)
\* the same inside a ```json fence, with a sentence before it
FencedLeadsText(pm) == Text("fenced leads", PErr, POk(LeadsAnswer(pm)), PNo, POk(LeadsAnswer(pm)))
\* '```json\n{"potential_matches": [{...},]}\n```': the fenced object does not parse
CUT_FENCE_TEXT == Text("cut fence", PErr, PErr, PErr, PErr)

\* what response.choices[0].message.content may be for the lead prompt
LeadContents ==
    {LeadsText([t |-> "list", cands |-> cands]) : cands \in CandLists}
    \cup {FencedLeadsText([t |-> "list", cands |-> <<CAND_ACME, CAND_GLOBEX, CAND_INITECH>>]),
          LeadsText([t |-> "dict", cands |-> <<>>]), LeadsText([t |-> "None", cands |-> <<>>]),
          JsonText(ANSWER_GOOD), CUT_FENCE_TEXT, PROSE_TEXT, ARRAY_TEXT, NUMBER_TEXT,
          STRING_TEXT, NULL_TEXT, NoneText}

\* the random sources of the calls
RandomSources ==
    {[n |-> 4, scores |-> <<70, 90, 80, 90, 75>>, fix |-> 70, shuffle |-> "keep", size |-> 0,
      jitter |-> 0 - 5, pattern |-> 0, first |-> 0, last |-> 0],
     [n |-> 5, scores |-> <<90, 70, 70, 85, 90>>, fix |-> 80, shuffle |-> "reverse", size |-> 1,
      jitter |-> 0, pattern |-> 3, first |-> 1, last |-> 2],
     [n |-> 6, scores |-> <<84, 85, 86, 70, 90>>, fix |-> 90, shuffle |-> "reverse", size |-> 2,
      jitter |-> 5, pattern |-> 5, first |-> 2, last |-> 1],
     [n |-> 4, scores |-> <<72, 72, 72, 72, 72>>, fix |-> 75, shuffle |-> "reverse", size |-> 1,
      jitter |-> 3, pattern |-> 1, first |-> 1, last |-> 1],
     [n |-> 5, scores |-> <<70, 71, 72, 73, 74>>, fix |-> 85, shuffle |-> "keep", size |-> 2,
      jitter |-> 0 - 2, pattern |-> 2, first |-> 2, last |-> 0],
     [n |-> 6, scores |-> <<90, 89, 88, 87, 86>>, fix |-> 88, shuffle |-> "keep", size |-> 0,
      jitter |-> 1, pattern |-> 4, first |-> 0, last |-> 2]}


-----------------------------------------------------------------------------
(* The file system under the caches.  io says how it answers one cache     *)
(* operation: "ok"; "makedirs", os.makedirs of get_cache_path raises       *)
(* (the cache directory cannot be created); "read", open, json.load or the *)
(* reading of the timestamp in _check_cache raises (no permission, a file  *)
(* that is not JSON, a timestamp that is no date); "write", the makedirs,  *)
(* open or json.dump inside the try block of _cache_results raises.        *)

CheckIo == {"ok", "makedirs", "read"}
WriteIo == {"ok", "makedirs", "write"}

\* helpers.py:26-41: the path, or the OSError of os.makedirs
get_cache_path(io) ==
    IF io = "makedirs" THEN Raise("OSError", "") ELSE Return("")

\* a cache check meets the file system only with caching on, and reads only
\* a file that exists (os.path.exists)
CheckGuard(uc, file, io) ==
    /\ io # "ok" => uc
    /\ io = "read" => file.exists

\* a cache write happens only with caching on, after the result was computed
WriteGuard(writes, io) == io # "ok" => writes

-----------------------------------------------------------------------------
(* State *)

NoTrace == [gateway |-> 0, writes |-> 0, prepares |-> 0, draws |-> 0,
            check_io |-> "ok", write_io |-> "ok", steps |-> <<>>]
NoMiss == [valid |-> FALSE, p |-> EmptyDict, at |-> 0,
           stored |-> FALSE, leads |-> <<>>, leads_at |-> 0]
NoWebsite == [domain |-> "a.com", page |-> "empty"]
NoLeadArgs == [profile |-> EmptyDict, domain |-> "a.com"]

\* two requests for one domain, each served by its own thread
Requests == {1, 2}
NoRequest == [pc |-> "start", data |-> EmptyDict, returned |-> EmptyDict]
\* the file as the lines it holds; a line is known by who wrote it and by its
\* place in what that request wrote
NoCacheFile == [exists |-> FALSE, lines |-> <<>>]

\* the positions at which a call has ended and its caller holds the outcome
Ended == {"a_done", "a_raised", "l_done", "l_raised", "r_done", "r_raised", "p_done",
          "f_done", "f_raised"}

Init ==
    /\ OPENAI_API_KEY \in BOOLEAN
    /\ client \in BOOLEAN
    /\ client => OPENAI_API_KEY          \* llm_interface.py:33: built only with a key
    /\ now = 0
    /\ analysis_cache = [d \in Domains |-> NoFile]
    /\ leads_cache = [d \in Domains |-> NoFile]
    /\ pc = "idle"
    /\ caller = "analyzer"
    /\ use_cache = TRUE
    /\ company_analysis = EmptyDict      \* content_analyzer.py:21
    /\ website_data = NoWebsite
    /\ content = CONTENT_EMPTY
    /\ attempt = 0
    /\ response_text = NoneText
    /\ path = "none"
    /\ returned = EmptyDict
    /\ raised = ""
    /\ trace = NoTrace
    /\ prev_file = NoFile
    /\ prev_miss = NoMiss
    /\ last_miss = [d \in Domains |-> NoMiss]
    /\ lead_args = NoLeadArgs
    /\ potential_matches = <<>>
    /\ leads = <<>>
    /\ cache_file = NoCacheFile
    /\ requests = [r \in Requests |-> NoRequest]
    /\ last_writer = 0

-----------------------------------------------------------------------------
(* ContentAnalyzer.analyze_company, up to the call of query_llm.  The      *)
(* instance is the one the caller holds: company_analysis is {} on a new   *)
(* instance and the previous result on one that is used again.             *)

AnalyzeBegin(wd, uc, io) ==
    /\ pc = "idle"
    /\ CheckGuard(uc, analysis_cache[analysis_cache_key(wd)], io)
    /\ website_data' = wd
    /\ use_cache' = uc
    /\ prev_file' = analysis_cache[analysis_cache_key(wd)]
    /\ prev_miss' = last_miss[wd.domain]
    /\ LET cached == IF io = "read" THEN [hit |-> FALSE, data |-> EmptyDict]
                     ELSE analyzer_check_cache(analysis_cache[analysis_cache_key(wd)], now)
       IN IF uc /\ get_cache_path(io).out = "raise"
          THEN /\ pc' = "a_raised"
               /\ raised' = get_cache_path(io).exc
               /\ trace' = [NoTrace EXCEPT !.check_io = io]
               /\ UNCHANGED <<path, returned, content>>
          ELSE IF uc /\ cached.hit /\ cached.data # EmptyDict
          THEN /\ pc' = "a_done"
               /\ path' = "hit"
               /\ returned' = cached.data
               /\ UNCHANGED <<content, trace, raised>>
          ELSE /\ pc' = "query"
               /\ content' = _prepare_content(wd)
               /\ trace' = [NoTrace EXCEPT !.prepares = 1, !.gateway = 1, !.check_io = io]
               /\ UNCHANGED <<path, returned, raised>>
    /\ analysis_cache' =
          IF uc /\ io = "ok" /\ analysis_cache[analysis_cache_key(wd)].exists
          THEN [analysis_cache EXCEPT ![analysis_cache_key(wd)] = read_entry(@, now)]
          ELSE analysis_cache
    /\ UNCHANGED <<OPENAI_API_KEY, client, now, leads_cache, caller,
                   company_analysis, attempt, response_text, last_miss, lead_args,
                   potential_matches, leads>>
    /\ UNCHANGED race_vars

\* where query_llm returns to
AfterQuery == IF caller = "analyzer" THEN "a_parse" ELSE "l_parse"

\* query_llm, lines 54-65: the configuration checks
QueryEnter ==
    /\ pc = "query"
    /\ IF ~OPENAI_API_KEY
       THEN /\ response_text' = SENTINEL_NO_KEY
            /\ pc' = AfterQuery
       ELSE IF ~client
       THEN /\ response_text' = SENTINEL_NO_CLIENT
            /\ pc' = AfterQuery
       ELSE /\ pc' = "q_loop"
            /\ UNCHANGED response_text
    /\ UNCHANGED <<OPENAI_API_KEY, client, now, analysis_cache, leads_cache, caller,
                   use_cache, company_analysis, website_data, content, attempt, path,
                   returned, raised, trace, prev_file, prev_miss, last_miss, lead_args, potential_matches, leads>>
    /\ UNCHANGED race_vars

\* query_llm, lines 68-83: an attempt whose request succeeds returns the
\* message content as it is
QueryAttemptOk(text) ==
    /\ pc = "q_loop"
    /\ attempt < max_retries
    /\ response_text' = text
    /\ pc' = AfterQuery
    /\ UNCHANGED <<OPENAI_API_KEY, client, now, analysis_cache, leads_cache, caller,
                   use_cache, company_analysis, website_data, content, attempt, path,
                   returned, raised, trace, prev_file, prev_miss, last_miss, lead_args, potential_matches, leads>>
    /\ UNCHANGED race_vars

\* query_llm, lines 85-88: an attempt that raises is absorbed, the loop goes on
QueryAttemptFail ==
    /\ pc = "q_loop"
    /\ attempt < max_retries
    /\ attempt' = attempt + 1
    /\ UNCHANGED <<OPENAI_API_KEY, client, now, analysis_cache, leads_cache, pc, caller,
                   use_cache, company_analysis, website_data, content, response_text, path,
                   returned, raised, trace, prev_file, prev_miss, last_miss, lead_args, potential_matches, leads>>
    /\ UNCHANGED race_vars

\* query_llm, lines 90-92: the loop ran out
QueryExhausted ==
    /\ pc = "q_loop"
    /\ attempt >= max_retries
    /\ response_text' = SENTINEL_FAILED
    /\ pc' = AfterQuery
    /\ UNCHANGED <<OPENAI_API_KEY, client, now, analysis_cache, leads_cache, caller,
                   use_cache, company_analysis, website_data, content, attempt, path,
                   returned, raised, trace, prev_file, prev_miss, last_miss, lead_args, potential_matches, leads>>
    /\ UNCHANGED race_vars

\* an analyze_company that stores its result whatever self.use_cache says
AnalyzeEnd_caching(io) ==
    /\ pc = "a_parse"
    /\ attempt' = 0
    /\ LET r == _analyze_with_openai(content, response_text, company_analysis)
           analysis_result == [r.res.v EXCEPT !["timestamp"] = isoformat(now)]
           key == analysis_cache_key(website_data)
       IN /\ WriteGuard(r.res.out = "return", io)
          /\ path' = r.path
          /\ IF r.res.out = "raise"
             THEN /\ pc' = "a_raised"
                  /\ raised' = r.res.exc
                  /\ UNCHANGED <<company_analysis, returned, analysis_cache, trace, last_miss>>
             ELSE /\ company_analysis' = analysis_result
                  /\ IF get_cache_path(io).out = "raise"
                     THEN /\ pc' = "a_raised"
                          /\ raised' = get_cache_path(io).exc
                          /\ trace' = [trace EXCEPT !.write_io = io]
                          /\ UNCHANGED <<returned, analysis_cache, last_miss>>
                     ELSE /\ pc' = "a_done"
                          /\ returned' = analysis_result
                          /\ UNCHANGED raised
                          /\ IF io = "ok"
                             THEN /\ analysis_cache' = [analysis_cache EXCEPT ![key] =
                                                           analyzer_cache_results(analysis_result)]
                                  /\ trace' = [trace EXCEPT !.writes = @ + 1]
                                  /\ last_miss' = [last_miss EXCEPT ![website_data.domain] =
                                                      [@ EXCEPT !.valid = TRUE,
                                                                !.p = analysis_result,
                                                                !.at = now]]
                             ELSE /\ trace' = [trace EXCEPT !.write_io = io]
                                  /\ UNCHANGED <<analysis_cache, last_miss>>
    /\ UNCHANGED <<OPENAI_API_KEY, client, now, leads_cache, caller, use_cache,
                   website_data, content, response_text, prev_file, prev_miss,
                   lead_args, potential_matches, leads>>
    /\ UNCHANGED race_vars

\* ContentAnalyzer.analyze_company, from the return of query_llm to the end
AnalyzeEnd(io) ==
    /\ pc = "a_parse"
    /\ attempt' = 0
    /\ LET r == _analyze_with_openai(content, response_text, company_analysis)
           analysis_result == [r.res.v EXCEPT !["timestamp"] = isoformat(now)]
           key == analysis_cache_key(website_data)
       IN /\ WriteGuard(use_cache /\ r.res.out = "return", io)
          /\ path' = r.path
          /\ IF r.res.out = "raise"
             THEN /\ pc' = "a_raised"
                  /\ raised' = r.res.exc
                  /\ UNCHANGED <<company_analysis, returned, analysis_cache, trace, last_miss>>
             ELSE /\ company_analysis' = analysis_result
                  /\ IF use_cache /\ get_cache_path(io).out = "raise"
                     THEN /\ pc' = "a_raised"
                          /\ raised' = get_cache_path(io).exc
                          /\ trace' = [trace EXCEPT !.write_io = io]
                          /\ UNCHANGED <<returned, analysis_cache, last_miss>>
                     ELSE /\ pc' = "a_done"
                          /\ returned' = analysis_result
                          /\ UNCHANGED raised
                          /\ IF use_cache /\ io = "ok"
                             THEN /\ analysis_cache' = [analysis_cache EXCEPT ![key] =
                                                           analyzer_cache_results(analysis_result)]
                                  /\ trace' = [trace EXCEPT !.writes = @ + 1]
                                  /\ last_miss' = [last_miss EXCEPT ![website_data.domain] =
                                                      [@ EXCEPT !.valid = TRUE,
                                                                !.p = analysis_result,
                                                                !.at = now]]
                             ELSE /\ trace' = [trace EXCEPT !.write_io = io]
                                  /\ UNCHANGED <<analysis_cache, last_miss>>
    /\ UNCHANGED <<OPENAI_API_KEY, client, now, leads_cache, caller, use_cache,
                   website_data, content, response_text, prev_file, prev_miss,
                   lead_args, potential_matches, leads>>
    /\ UNCHANGED race_vars

\* the caller takes the outcome; what was local to the call ends with it.
\* keep: the caller holds on to the ContentAnalyzer for its next call; the
\* module function (content_analyzer.py:475-482) builds one per call.
CallReturn(keep) ==
    /\ pc \in Ended
    /\ pc' = "idle"
    /\ company_analysis' = IF keep THEN company_analysis ELSE EmptyDict
    /\ content' = CONTENT_EMPTY
    /\ attempt' = 0
    /\ response_text' = NoneText
    /\ path' = "none"
    /\ returned' = EmptyDict
    /\ raised' = ""
    /\ trace' = NoTrace
    /\ prev_file' = NoFile
    /\ prev_miss' = NoMiss
    /\ lead_args' = NoLeadArgs
    /\ potential_matches' = <<>>
    /\ leads' = <<>>
    /\ caller' = "analyzer"
    /\ use_cache' = TRUE
    /\ website_data' = NoWebsite
    /\ UNCHANGED <<OPENAI_API_KEY, client, now, analysis_cache, leads_cache, last_miss>>
    /\ UNCHANGED race_vars

\* time passes between calls
Tick ==
    /\ pc = "idle"
    /\ now < MaxTime
    /\ now' = now + 1
    /\ UNCHANGED <<OPENAI_API_KEY, client, analysis_cache, leads_cache, pc, caller,
                   use_cache, company_analysis, website_data, content, attempt, response_text,
                   path, returned, raised, trace, prev_file, prev_miss, last_miss, lead_args,
                   potential_matches, leads>>
    /\ UNCHANGED race_vars

-----------------------------------------------------------------------------
(* LeadGenerator.generate_leads.  The module function (lead_generator.py:   *)
(* 870-873) builds one LeadGenerator per call.                              *)

\* generate_leads up to the call of query_llm
LeadsBegin(profile, domain, uc, io) ==
    /\ pc = "idle"
    /\ CheckGuard(uc, leads_cache[leads_cache_key(domain)], io)
    /\ lead_args' = [profile |-> profile, domain |-> domain]
    /\ use_cache' = uc
    /\ caller' = "leads"
    /\ prev_file' = leads_cache[leads_cache_key(domain)]
    /\ prev_miss' = last_miss[domain]
    /\ LET cached_data == IF io = "read" THEN [hit |-> FALSE, leads |-> <<>>]
                          ELSE leads_check_cache(leads_cache[leads_cache_key(domain)], now)
           offerings == external_offerings(profile)
       IN IF uc /\ get_cache_path(io).out = "raise"
          THEN /\ pc' = "l_raised"
               /\ raised' = get_cache_path(io).exc
               /\ trace' = [NoTrace EXCEPT !.check_io = io]
               /\ UNCHANGED <<path, leads>>
          ELSE IF uc /\ cached_data.hit /\ cached_data.leads # <<>>
          THEN /\ pc' = "l_done"
               /\ path' = "hit"
               /\ leads' = cached_data.leads
               /\ UNCHANGED <<raised, trace>>
          ELSE IF offerings.out = "raise"
          THEN /\ pc' = "l_raised"
               /\ raised' = offerings.exc
               /\ trace' = [NoTrace EXCEPT !.check_io = io]
               /\ UNCHANGED <<path, leads>>
          ELSE IF external_prepare(profile).out = "raise"
          THEN /\ pc' = "l_fallback"
               /\ trace' = [NoTrace EXCEPT !.check_io = io]
               /\ UNCHANGED <<path, leads, raised>>
          ELSE /\ pc' = "query"
               /\ trace' = [NoTrace EXCEPT !.gateway = 1, !.check_io = io]
               /\ UNCHANGED <<path, leads, raised>>
    /\ leads_cache' =
          IF uc /\ io = "ok" /\ leads_cache[leads_cache_key(domain)].exists
          THEN [leads_cache EXCEPT ![leads_cache_key(domain)] = read_entry(@, now)]
          ELSE leads_cache
    /\ UNCHANGED <<OPENAI_API_KEY, client, now, analysis_cache, company_analysis,
                   website_data, content, attempt, response_text, returned,
                   last_miss, potential_matches>>
    /\ UNCHANGED race_vars

\* generate_leads from the return of query_llm, or from the exception that
\* kept the prompt from being built, to the end
LeadsEnd(rnd, io) ==
    /\ pc \in {"l_parse", "l_fallback"}
    /\ attempt' = 0
    /\ \E found \in {external_matches(lead_args.profile, response_text, rnd)} :
       \E built \in {IF found.res.out = "raise" THEN found.res
                     ELSE external_leads(found.res.v, lead_args.profile, rnd)} :
          LET result == [leads |-> built.v, timestamp |-> isoformat(now)]
              key == leads_cache_key(lead_args.domain)
          IN /\ WriteGuard(use_cache /\ built.out = "return", io)
             /\ path' = found.path
             /\ potential_matches' = IF found.res.out = "raise" THEN <<>> ELSE found.res.v
             /\ IF built.out = "raise"
                THEN /\ pc' = "l_raised"
                     /\ raised' = built.exc
                     /\ trace' = [trace EXCEPT !.draws = 1]
                     /\ UNCHANGED <<leads, leads_cache, last_miss>>
                ELSE IF use_cache /\ get_cache_path(io).out = "raise"
                THEN /\ pc' = "l_raised"
                     /\ raised' = get_cache_path(io).exc
                     /\ trace' = [trace EXCEPT !.draws = 1, !.write_io = io]
                     /\ UNCHANGED <<leads, leads_cache, last_miss>>
                ELSE /\ pc' = "l_done"
                     /\ leads' = result.leads
                     /\ UNCHANGED raised
                     /\ IF use_cache /\ io = "ok"
                        THEN /\ leads_cache' =
                                  [leads_cache EXCEPT ![key] = leads_cache_results(result)]
                             /\ trace' = [trace EXCEPT !.draws = 1, !.writes = @ + 1]
                             /\ last_miss' = [last_miss EXCEPT ![lead_args.domain] =
                                                 [@ EXCEPT !.stored = TRUE,
                                                           !.leads = result.leads,
                                                           !.leads_at = now]]
                        ELSE /\ trace' = [trace EXCEPT !.draws = 1, !.write_io = io]
                             /\ UNCHANGED <<leads_cache, last_miss>>
    /\ UNCHANGED <<OPENAI_API_KEY, client, now, analysis_cache, caller, use_cache,
                   company_analysis, website_data, content, response_text, returned,
                   prev_file, prev_miss, lead_args>>
    /\ UNCHANGED race_vars

\* the steps of an analysis, for the records, flags and backend contents
\* given, the file system working
Step(records, flags, texts, keeps) ==
    \/ \E wd \in records, uc \in flags : AnalyzeBegin(wd, uc, "ok")
    \/ QueryEnter
    \/ \E text \in texts : QueryAttemptOk(text)
    \/ QueryAttemptFail
    \/ QueryExhausted
    \/ AnalyzeEnd("ok")
    \/ \E keep \in keeps : CallReturn(keep)

\* the caching pipeline: the module function called for two domains, time
\* passing between calls
Next ==
    \/ Step(PipelineRecords, BOOLEAN, PipelineContents, OnlyFalse)
    \/ Tick

Spec == Init /\ [][Next]_vars

\* one site analysed over every content the backend may give
NextAnalyze ==
    Step(SiteRecords, BOOLEAN, AnalysisContents, OnlyFalse)

SpecAnalyze == Init /\ [][NextAnalyze]_vars

\* one ContentAnalyzer, caching off, called again and again
NextReuse ==
    Step(SiteRecords, OnlyFalse, ReuseContents, BOOLEAN)

SpecReuse == Init /\ [][NextReuse]_vars

\* generate_leads called, caching off, over the profiles of the analyzer, the
\* contents the backend may give and the random sources
NextLeads ==
    \/ \E profile \in LeadProfiles : LeadsBegin(profile, "a.com", FALSE, "ok")
    \/ QueryEnter
    \/ \E text \in LeadContents : QueryAttemptOk(text)
    \/ QueryAttemptFail
    \/ QueryExhausted
    \/ \E rnd \in RandomSources : LeadsEnd(rnd, "ok")
    \/ CallReturn(FALSE)

SpecLeads == Init /\ [][NextLeads]_vars

\* the profiles, backend contents and random sources of the cached pipeline
CacheProfiles == {Stamped(_analyze_without_llm(CONTENT_TECH, EmptyDict).v),
                  Stamped(_process_llm_response(ParsedDict(ANSWER_ROLES)).v)}
CacheLeadContents == {LeadsText([t |-> "list", cands |-> <<CAND_ACME, CAND_GLOBEX, CAND_INITECH>>])}
CacheRandomSources == {rnd \in RandomSources : rnd.pattern \in {0, 5}}
\* what the backend answers to either prompt in the cache specifications
CacheContents == {JsonText(ANSWER_GOOD)} \cup CacheLeadContents

\* generate_leads called for two domains, caching on or off, time passing
\* between calls
NextLeadsCache ==
    \/ \E profile \in CacheProfiles, domain \in Domains, uc \in BOOLEAN :
          LeadsBegin(profile, domain, uc, "ok")
    \/ QueryEnter
    \/ \E text \in CacheLeadContents : QueryAttemptOk(text)
    \/ QueryAttemptFail
    \/ QueryExhausted
    \/ \E rnd \in CacheRandomSources : LeadsEnd(rnd, "ok")
    \/ CallReturn(FALSE)
    \/ Tick

SpecLeadsCache == Init /\ [][NextLeadsCache]_vars

\* both entry points called with caching on, over a file system that may
\* fail at every cache operation
NextFaults ==
    \/ \E wd \in CachedSiteRecords, io \in CheckIo : AnalyzeBegin(wd, TRUE, io)
    \/ \E profile \in CacheProfiles, io \in CheckIo : LeadsBegin(profile, "a.com", TRUE, io)
    \/ QueryEnter
    \/ \E text \in CacheContents : QueryAttemptOk(text)
    \/ QueryAttemptFail
    \/ QueryExhausted
    \/ \E io \in WriteIo : AnalyzeEnd(io)
    \/ \E rnd \in CacheRandomSources, io \in WriteIo : LeadsEnd(rnd, io)
    \/ CallReturn(FALSE)
    \/ Tick

SpecFaults == Init /\ [][NextFaults]_vars

\* both entry points called for one domain, caching on or off, over a file
\* system that works, time passing between calls
NextCache ==
    \/ \E wd \in CachedSiteRecords, uc \in BOOLEAN : AnalyzeBegin(wd, uc, "ok")
    \/ \E profile \in CacheProfiles, uc \in BOOLEAN : LeadsBegin(profile, "a.com", uc, "ok")
    \/ QueryEnter
    \/ \E text \in CacheContents : QueryAttemptOk(text)
    \/ QueryAttemptFail
    \/ QueryExhausted
    \/ AnalyzeEnd("ok")
    \/ \E rnd \in CacheRandomSources : LeadsEnd(rnd, "ok")
    \/ CallReturn(FALSE)
    \/ Tick

SpecCache == Init /\ [][NextCache]_vars

-----------------------------------------------------------------------------
(* Properties of the analyzer and of the gateway *)

\* analyze_company has returned a profile it computed in this call
Computed == pc = "a_done" /\ path \in {"normalize", "fallback"}

C2_ListFieldsAreLists == Computed => \A f \in list_fields : returned[f].t = "list"

\* C3: with caching on, a call for a domain made within the TTL of the last
\* computed and stored profile of that domain is a hit: it returns that very
\* profile, timestamp included, without a gateway call and without a write.
C3_CacheIdempotence ==
    (pc = "a_done" /\ use_cache /\ prev_miss.valid /\ now - prev_miss.at <= cache_expiry)
        => /\ path = "hit"
           /\ returned = prev_miss.p
           /\ returned["timestamp"] = isoformat(prev_miss.at)
           /\ trace.gateway = 0
           /\ trace.writes = 0
           /\ analysis_cache[website_data.domain] = prev_file

\* a second call for the same domain, later but within the TTL, has returned
C3_Witness ==
    /\ pc = "a_done"
    /\ use_cache
    /\ prev_miss.valid
    /\ now = prev_miss.at + cache_expiry
    /\ path = "hit"
    /\ website_data.page = "tech"
    /\ returned["offerings"].t = "list"

\* the age of the entry found at the start of the call
PrevAge == now - fromisoformat(JLoad(prev_file.doc["timestamp"])).v

\* C4: with caching on, an entry older than the expiry counts as absent: the
\* content is prepared, the gateway is queried and the entry is overwritten
\* with the new profile and the new timestamp; an entry of age at most the
\* expiry is returned as a hit.
C4_Expiry ==
    (pc = "a_done" /\ use_cache /\ prev_file.exists)
        => IF PrevAge > cache_expiry
           THEN /\ path \in {"normalize", "fallback"}
                /\ trace.prepares = 1
                /\ trace.gateway = 1
                /\ trace.writes = 1
                /\ returned["timestamp"] = isoformat(now)
                /\ analysis_cache[website_data.domain] = File(json_dump(returned))
                /\ analysis_cache[website_data.domain] # prev_file
           ELSE /\ path = "hit"
                /\ returned = json_load(prev_file.doc)
                /\ trace.prepares = 0
                /\ trace.gateway = 0

\* an expired entry has been replaced by a call that ran the analysis again
C4_Witness ==
    /\ pc = "a_done"
    /\ use_cache
    /\ prev_file.exists
    /\ PrevAge = cache_expiry + 1
    /\ path = "normalize"
    /\ analysis_cache[website_data.domain].doc["timestamp"] = JDump(isoformat(now))

\* the six keys of the rule-based analysis
FallbackKeys == {"company_type", "industry", "company_size", "target_market", "offerings",
                 "pain_points"}

\* C6: without a credential the gateway answers with the not-configured
\* sentinel; on that sentinel, and on the retries-exhausted sentinel, the
\* analysis takes the rule-based path, never the normalizing one, and the
\* profile it returns is the rule-based reading of the prepared content with
\* the six keys present.
C6_SentinelFallback ==
    /\ (pc \in {"a_parse", "a_done", "a_raised"} /\ trace.gateway = 1 /\ ~OPENAI_API_KEY)
          => response_text = SENTINEL_NO_KEY
    /\ (pc \in {"a_done", "a_raised"} /\ trace.gateway = 1 /\ response_text \in Sentinels)
          => path = "fallback"
    /\ (pc = "a_done" /\ trace.gateway = 1 /\ response_text \in Sentinels)
          => /\ \A k \in FallbackKeys : returned[k].t # "absent"
             /\ returned["company_type"] = PyStr(_guess_company_type(content))
             /\ returned["industry"] = PyStr(_guess_industry(content))
             /\ returned["company_size"] = PyStr(_guess_company_size(content))

\* a call without a credential and a call whose retries ran out both ended in
\* the rule-based path
C6_Witness ==
    /\ pc = "a_done"
    /\ path = "fallback"
    /\ response_text = SENTINEL_FAILED
    /\ content = CONTENT_TECH
    /\ returned["offerings"].t = "list"

\* C7: analyze_company never raises, whatever the gateway returned.
C7_NeverRaises == pc # "a_raised"

\* query_llm has just returned to its caller
Returned == pc \in {"a_parse", "l_parse"}

\* C10: query_llm returns a string: the not-configured sentinel after no
\* attempt when the key or the client is missing, else the content of the
\* first attempt that succeeded, after at most max_retries attempts, and the
\* failure sentinel after exactly max_retries failed attempts.
C10_QueryLlm ==
    Returned =>
        /\ ~response_text.isnone
        /\ attempt <= max_retries
        /\ (~OPENAI_API_KEY \/ ~client)
              => response_text \in {SENTINEL_NO_KEY, SENTINEL_NO_CLIENT} /\ attempt = 0
        /\ (OPENAI_API_KEY /\ client /\ attempt = max_retries) => response_text = SENTINEL_FAILED

-----------------------------------------------------------------------------
(* Properties of the lead generator *)

\* generate_leads has returned leads it built in this call
Built == pc = "l_done" /\ path # "hit"

\* C5: every lead generate_leads returns carries a match score between 0 and
\* 100, whichever path found the candidate.
C5_ScoreBounds == pc = "l_done" => \A i \in 1..Len(leads) : leads[i].match_score \in 0..100

\* the roles the profile names under decision_maker_roles
GivenRoles == lead_args.profile["decision_maker_roles"].items

C9_LeadsNeverRaise ==
    /\ pc # "l_raised"
    /\ pc = "l_done" => Len(leads) >= 1

-----------------------------------------------------------------------------
(* Properties of extract_json_from_response *)

\* analyze_company has run extract_json_from_response on a text
Extracted == pc \in {"a_done", "a_raised"} /\ path # "hit" /\ ~response_text.isnone

\* C11: the extraction attempts are tried in order and each failed one falls
\* through to the next: the result is the parse of the whole text, else of the
\* brace substring, else of the bracket substring, the first that parses, and
\* no exception leaves the function for a text.
C11_FallThrough ==
    Extracted =>
        LET r == extract_json_from_response(response_text)
        IN /\ r.out = "return"
           /\ response_text.whole.st = "ok" => r.v = response_text.whole.v
           /\ (response_text.whole.st # "ok" /\ response_text.objspan.st = "ok")
                 => r.v = response_text.objspan.v
           /\ (response_text.whole.st # "ok" /\ response_text.objspan.st # "ok"
                  /\ response_text.arrspan.st = "ok")
                 => r.v = response_text.arrspan.v

-----------------------------------------------------------------------------
(* Properties of the leads *)

\* C12 as stated: every lead generate_leads returns has at most three outreach
\* suggestions, whatever its role and whether or not the offerings are known.
C12_AtMostThree ==
    pc = "l_done" => \A i \in 1..Len(leads) : Len(leads[i].outreach_suggestions) <= 3

\* the profile's offerings are known to _generate_outreach_suggestions
OfferingsKnown ==
    LET given == lead_args.profile["offerings"]
        offerings == IF given.t = "str" THEN PyList(<<StrItem(given.s)>>) ELSE given
    IN Truthy(offerings) /\ offerings # StrList(<<UNKNOWN_LLM>>)

\* C12 amended: the outreach suggestions of a lead are the three suggestions of
\* its role's family, followed by one line about the first offering when the
\* profile's offerings are known: four items then, three otherwise.
C12_ThreeOrFour ==
    Built =>
        \A i \in 1..Len(leads) :
            /\ SubSeq(leads[i].outreach_suggestions, 1, 3)
                  = role_suggestions(role_family(leads[i].role))
            /\ Len(leads[i].outreach_suggestions) = IF OfferingsKnown THEN 4 ELSE 3

\* a CFO lead built for a profile with known offerings carries four suggestions
C12_Witness ==
    /\ Built
    /\ OfferingsKnown
    /\ leads[1].role = "CFO"
    /\ Len(leads[1].outreach_suggestions) = 4
    /\ leads[1].outreach_suggestions[1] = "Focus on financial benefits and ROI"

-----------------------------------------------------------------------------
(* Properties of the leads cache *)

\* C13: with caching on, a generate_leads call for a domain made within the
\* TTL of the last lead list computed and stored for that domain is a hit: it
\* returns that very list, read from the entry of the domain, without a
\* gateway call, without reading the random source and without a write.
C13_LeadsCacheIdempotence ==
    (pc = "l_done" /\ use_cache /\ prev_miss.stored
        /\ now - prev_miss.leads_at <= cache_expiry)
        => /\ path = "hit"
           /\ leads = prev_miss.leads
           /\ leads = leads_check_cache(prev_file, now).leads
           /\ trace.gateway = 0
           /\ trace.draws = 0
           /\ trace.writes = 0
           /\ leads_cache[lead_args.domain] = prev_file

\* a call for a domain, later than the first one but within the TTL, has
\* returned the three stored leads of an answer of the backend
C13_Witness ==
    /\ pc = "l_done"
    /\ use_cache
    /\ prev_miss.stored
    /\ now = prev_miss.leads_at + cache_expiry
    /\ path = "hit"
    /\ lead_args.profile["decision_maker_roles"].t = "absent"
    /\ Len(leads) = 3
    /\ leads[1].email.domain = PyStr("globex.io")

\* C14: a failure of the file system under a cache never aborts a request.  A
\* failure while the entry is located or read counts as a miss and the call
\* goes on to compute its result; a failure while the entry is written is
\* absorbed and the result just computed is returned.
C14_CacheFaultsAbsorbed ==
    /\ raised # "OSError"
    /\ (pc \in {"a_done", "l_done"} /\ trace.check_io # "ok")
          => path # "hit" /\ trace.gateway = 1
    /\ (pc = "a_done" /\ trace.write_io # "ok")
          => returned = company_analysis /\ returned["timestamp"] = isoformat(now)
    /\ (pc = "l_done" /\ trace.write_io # "ok") => Len(leads) >= 1

-----------------------------------------------------------------------------
(* Properties of the profile's fields *)

\* the values the profile's company_type and company_size are specified to take
CompanyTypes == {PyStr(x) : x \in {"B2B", "B2C", "Government", "Non-profit", "Unknown"}}
CompanySizes == {PyStr(x) : x \in {"Small", "Medium", "Large", "Unknown"}}

\* C15: in every profile analyze_company returns, company_type is one of B2B,
\* B2C, Government, Non-profit, Unknown and company_size is one of Small,
\* Medium, Large, Unknown, whatever the answer of the backend carried.
C15_EnumFields ==
    pc = "a_done" => /\ returned["company_type"] \in CompanyTypes
                     /\ returned["company_size"] \in CompanySizes

-----------------------------------------------------------------------------
(* Properties of the generated emails *)

\* the places of the '@' pieces of an email text
Ats(text) == {k \in 1..Len(text) : text[k] = "@"}

\* the lower-case names and initials of a fabricated name
NamePieces(name) ==
    {name_lower(name.first_name), name_lower(name.last_name),
     name_initial(name.first_name), name_initial(name.last_name)}

\* C16: every email of a lead has the shape local@domain: exactly one '@',
\* before it a non-empty local part made of the lead's fabricated first and
\* last name or their initials, after it the non-empty domain of the lead's
\* company, for every pattern and every name drawn.
C16_EmailShape ==
    Built =>
        \A i \in 1..Len(leads) :
            LET text == leads[i].email.text
            IN /\ Cardinality(Ats(text)) = 1
               /\ \A k \in Ats(text) :
                     /\ \E j \in 1..(k - 1) : text[j] \in NamePieces(leads[i].name)
                     /\ \A j \in 1..(k - 1) : text[j] \in NamePieces(leads[i].name) \cup {"."}
                     /\ Len(text) = k + 1
                     /\ text[k + 1] # ""
                     /\ PyStr(text[k + 1]) = leads[i].email.domain

-----------------------------------------------------------------------------
(* Properties of the rule-based offerings *)

\* _extract_offerings finds no offering in the content
NoneExtracted(c) ==
    LET parts == pattern_parts(c)
    IN \/ parts = <<>>
       \/ Len(parts) = 1 /\ Lower(parts[1]) = "unknown"
       \/ OfferingFilter(parts) = <<>>

\* the three generic lists of _infer_offerings_from_industry
GenericTriples == {StrList(generic_offerings(PyStr(ct))) : ct \in {"B2B", "B2C", "Unknown"}}

\* C17: when the rule-based analysis extracts no offering from a content, the
\* offerings it returns are the first three of the table's entry for the
\* industry detected in that content by that call, and a generic list only
\* when that industry is not in the table, on a new instance and on one that
\* analysed other sites before.
C17_InferredOfferings ==
    (pc = "a_done" /\ path = "fallback" /\ content.nonempty /\ NoneExtracted(content))
        => IF _guess_industry(content) \in Industries
           THEN returned["offerings"]
                   = StrList(Take(industry_offerings(_guess_industry(content)), 3))
           ELSE returned["offerings"] \in GenericTriples

-----------------------------------------------------------------------------
(* Properties of the candidates found without the LLM *)

\* the industry of the company the leads are generated for
SourceIndustry == Get(lead_args.profile, "industry", PyStr("Unknown"))

\* C18: when the answer of the LLM is missing or cannot be parsed, the
\* candidates come from _generate_fallback_matches and neither a candidate nor
\* a returned lead is in the industry of the source company.
C18_NoOwnIndustry ==
    (Built /\ path = "fallback")
        => /\ \A i \in 1..Len(potential_matches) :
                 potential_matches[i].offering_category = "fallback_generated"
           /\ \A i \in 1..Len(potential_matches) :
                 potential_matches[i].industry # SourceIndustry
           /\ \A i \in 1..Len(leads) : leads[i].industry # SourceIndustry

-----------------------------------------------------------------------------
(* Properties of the validation of an answer's candidates *)

\* generate_leads built its leads from an answer that json.loads turned into
\* a dict with a list under 'potential_matches'
AnswerParsed ==
    /\ Built
    /\ external_prepare(lead_args.profile).out = "return"
    /\ leads_json(response_text).out = "return"
    /\ leads_json(response_text).v.k = "dict"
    /\ leads_json(response_text).v.pm.t = "list"

\* the candidates of that answer
AnswerCands == leads_json(response_text).v.pm.cands

\* a candidate with a name, an industry and a reason
HasRequired(c) ==
    /\ c.kind = "dict"
    /\ \A k \in {"company_name", "industry", "match_reason"} : c[k].t \notin {"absent", "None"}

\* C19: the candidates of a parsed answer are validated one by one: exactly
\* those with a name, an industry and a reason become match candidates, in
\* their order, each with a numeric score, a value range, a domain and a size,
\* and a candidate that lacks one of the three is skipped while the others
\* of the same answer are kept.
C19_EachValidated ==
    (AnswerParsed /\ SelectSeq(AnswerCands, HasRequired) # <<>>)
        => LET valid == SelectSeq(AnswerCands, HasRequired)
           IN /\ path = "llm"
              /\ Len(potential_matches) = Len(valid)
              /\ \A i \in 1..Len(potential_matches) :
                    /\ i <= Len(valid)
                    /\ potential_matches[i].company_name = valid[i].company_name
                    /\ potential_matches[i].industry = valid[i].industry
                    /\ potential_matches[i].match_reason = valid[i].match_reason
                    /\ potential_matches[i].match_score \in Int
                    /\ Truthy(potential_matches[i].potential_value)
                    /\ potential_matches[i].domain.t # "absent"
                    /\ potential_matches[i].size.t # "absent"

-----------------------------------------------------------------------------
(* Properties of the selection of the leads *)

\* how many records of a sequence carry the score v
ScoreCount(seq, v) == Cardinality({i \in 1..Len(seq) : seq[i].match_score = v})

\* the scores of the candidates that did not become leads
LeftOutScores ==
    {v \in {potential_matches[i].match_score : i \in 1..Len(potential_matches)} :
        ScoreCount(potential_matches, v) > ScoreCount(leads, v)}

\* C20: the leads generate_leads builds are in non-increasing order of match
\* score, there are min(number of candidates, N) of them for an N from 4 to 6,
\* and no candidate left out has a score greater than the score of a lead.
C20_BestFirst ==
    Built =>
        /\ \A i, j \in 1..Len(leads) :
              i < j => ~ScoreLt(leads[i].match_score, leads[j].match_score)
        /\ \E n \in 4..6 : Len(leads) = Min(Len(potential_matches), n)
        /\ \A i \in 1..Len(leads) :
              \A v \in LeftOutScores : ~ScoreLt(leads[i].match_score, v)

-----------------------------------------------------------------------------
(* Properties of the score of a candidate found by the rules *)

\* the candidates were found by _determine_potential_matches in this call
ByRules == Built /\ path = "rules"

\* the size of the source company as _generate_external_leads reads it
SourceSize == Get(lead_args.profile, "company_size", PyStr("Medium"))

\* the bonus for the size z of a candidate
SizeBonus(z) ==
    IF PyStr(z) = SourceSize THEN 10
    ELSE IF \/ (z = "Large" /\ SourceSize = PyStr("Medium"))
            \/ (z = "Medium" /\ SourceSize = PyStr("Small"))
         THEN 5
    ELSE 0

\* the score of candidate m when the relevance is read under category c, jitter j
ScoreUnder(c, m, j) ==
    Max(0, Min(100, Min(95, 70 + industry_relevance(c, m.industry.s) + SizeBonus(m.size.s)) + j))

\* the candidates that went through _calculate_match_score
WasScored(m) == m.offering_category # "industry_match"

\* C21 as stated: the relevance bonus of a candidate is the table entry of the
\* category the candidate was found through.
C21_ByFoundCategory ==
    ByRules =>
        \A i \in 1..Len(potential_matches) :
            WasScored(potential_matches[i]) =>
                \E j \in (0 - 5)..5 :
                    potential_matches[i].match_score
                        = ScoreUnder(potential_matches[i].offering_category,
                                     potential_matches[i], j)

\* C21 amended: the relevance bonus of a candidate is the table entry of the
\* first category of the offering it was found for, whichever category of that
\* offering it was found through; with the size bonus, the cap at 95, a jitter
\* from -5 to 5 and the clamp, the score lies between 65 and 100.
C21_ByFirstCategory ==
    ByRules =>
        \A i \in 1..Len(potential_matches) :
            WasScored(potential_matches[i]) =>
                /\ \E j \in (0 - 5)..5 :
                      potential_matches[i].match_score
                          = ScoreUnder(_categorize_offering(potential_matches[i].match_reason.s)[1],
                                       potential_matches[i], j)
                /\ potential_matches[i].match_score \in 65..100

\* a candidate found through the second category of its offering, with a
\* score no jitter reconciles with the table entry of that category
C21_Witness ==
    /\ ByRules
    /\ \E i \in 1..Len(potential_matches) :
          /\ WasScored(potential_matches[i])
          /\ potential_matches[i].offering_category
                # _categorize_offering(potential_matches[i].match_reason.s)[1]
          /\ \A j \in (0 - 5)..5 :
                potential_matches[i].match_score
                    # ScoreUnder(potential_matches[i].offering_category, potential_matches[i], j)

-----------------------------------------------------------------------------
(* Properties of the lifetime of a cache entry *)

\* analyze_company, generate_leads has returned the entry of its key
AnalysisHit == pc = "a_done" /\ path = "hit"
LeadsHit == pc = "l_done" /\ path = "hit"

\* C23: a cache hit of analyze_company or generate_leads leaves the entry and
\* its timestamp as they were: the entry returned is the one the latest
\* caching miss created, it carries the instant of its creation, it is a hit
\* only up to cache_expiry after that instant and a miss later, however often
\* it was read in between.
C23_ReadsKeepEntry ==
    /\ AnalysisHit =>
          /\ analysis_cache[website_data.domain] = prev_file
          /\ prev_miss.valid
          /\ JLoad(analysis_cache[website_data.domain].doc["timestamp"]) = isoformat(prev_miss.at)
          /\ now - prev_miss.at <= cache_expiry
    /\ LeadsHit =>
          /\ leads_cache[lead_args.domain] = prev_file
          /\ prev_miss.stored
          /\ JLoad(leads_cache[lead_args.domain].doc["timestamp"]) = isoformat(prev_miss.leads_at)
          /\ now - prev_miss.leads_at <= cache_expiry
    /\ (pc = "a_done" /\ use_cache /\ prev_miss.valid /\ now - prev_miss.at > cache_expiry)
          => path # "hit"
    /\ (pc = "l_done" /\ use_cache /\ prev_miss.stored /\ now - prev_miss.leads_at > cache_expiry)
          => path # "hit"

\* an entry created at instant 0 is returned at instant cache_expiry, its
\* timestamp still 0, by analyze_company
C23_Witness ==
    /\ AnalysisHit
    /\ prev_miss.at = 0
    /\ now = cache_expiry
    /\ returned["timestamp"] = isoformat(0)
    /\ analysis_cache[website_data.domain].doc["timestamp"] = JDump(isoformat(0))

-----------------------------------------------------------------------------
(* Properties of the calls made with caching off *)

\* C24: with use_cache false analyze_company and generate_leads neither read
\* nor write the cache: the call is never a hit, the entry of its key is left
\* as it was, and a later caching call within the expiry of that entry
\* returns the entry, not what the call without caching computed.
C24_UncachedLeavesEntry ==
    /\ (pc = "a_done" /\ ~use_cache) =>
          /\ path # "hit"
          /\ trace.gateway = 1
          /\ trace.writes = 0
          /\ analysis_cache[website_data.domain] = prev_file
          /\ last_miss[website_data.domain] = prev_miss
    /\ (pc = "l_done" /\ ~use_cache) =>
          /\ path # "hit"
          /\ trace.writes = 0
          /\ leads_cache[lead_args.domain] = prev_file
          /\ last_miss[lead_args.domain] = prev_miss
    /\ AnalysisHit => returned = json_load(prev_file.doc) /\ returned = prev_miss.p
    /\ LeadsHit => leads = leads_check_cache(prev_file, now).leads /\ leads = prev_miss.leads

\* a call without caching has computed a profile other than the one stored
\* for its domain, and the stored one, still within its expiry, is in place
C24_Witness ==
    /\ pc = "a_done"
    /\ ~use_cache
    /\ prev_file.exists
    /\ PrevAge <= cache_expiry
    /\ [returned EXCEPT !["timestamp"] = Absent]
          # [json_load(prev_file.doc) EXCEPT !["timestamp"] = Absent]
    /\ analysis_cache[website_data.domain] = prev_file

-----------------------------------------------------------------------------
(* Properties of the key of the analysis cache *)

\* the entry of domain d is there and not older than the expiry
ValidEntry(d) ==
    /\ analysis_cache[d].exists
    /\ now - fromisoformat(JLoad(analysis_cache[d].doc["timestamp"])).v <= cache_expiry

\* C25: the analysis cache is keyed by the domain alone.  While a domain has a
\* valid entry, the cache check of every website record of that domain finds
\* that entry, whatever else the record holds, and a caching call that began
\* with a valid entry returns it without preparing content and without a
\* gateway call.
C25_KeyedByDomain ==
    /\ \A wd \in WebsiteRecords :
          ValidEntry(wd.domain) =>
             LET cached == analyzer_check_cache(analysis_cache[analysis_cache_key(wd)], now)
             IN /\ cached.hit
                /\ cached.data = json_load(analysis_cache[wd.domain].doc)
    /\ (pc = "a_done" /\ use_cache /\ prev_file.exists /\ PrevAge <= cache_expiry) =>
          /\ path = "hit"
          /\ returned = json_load(analysis_cache[website_data.domain].doc)
          /\ content = CONTENT_EMPTY
          /\ trace.prepares = 0
          /\ trace.gateway = 0

\* a call for the empty page of a domain has returned the profile the rules
\* made of the other page of that domain
C25_Witness ==
    /\ AnalysisHit
    /\ website_data.page = "empty"
    /\ [returned EXCEPT !["timestamp"] = Absent]
          = [_analyze_without_llm(CONTENT_TECH, EmptyDict).v EXCEPT !["timestamp"] = Absent]

-----------------------------------------------------------------------------
(* The rule-based analysis called on its own.                              *)

TypeCounts == 0..2                       \* occurrences of a category's keywords
TeamCounts == {-1, 0, 49, 50, 499, 500}  \* N of 'team of N'; -1: no such phrase

\* texts told apart by what _guess_company_type and _guess_company_size find in them
RuleContents ==
    {[CONTENT_EMPTY EXCEPT !.id = "direct", !.b2b = b[1], !.b2c = b[2], !.gov = g[1],
                           !.npo = g[2], !.large = z[1], !.medium = z[2], !.small = z[3],
                           !.team = n] :
        b \in TypeCounts \X TypeCounts, g \in TypeCounts \X TypeCounts,
        z \in BOOLEAN \X BOOLEAN \X BOOLEAN, n \in TeamCounts}
    \cup {[c EXCEPT !.id = "direct"] : c \in Contents}

\* ContentAnalyzer()._analyze_without_llm(c) on a new instance
AnalyzeWithoutLlm(c) ==
    /\ pc = "idle"
    /\ content' = c
    /\ path' = "fallback"
    /\ \E r \in {_analyze_without_llm(c, company_analysis)} :
          IF r.out = "raise"
          THEN /\ pc' = "r_raised"
               /\ raised' = r.exc
               /\ UNCHANGED returned
          ELSE /\ pc' = "r_done"
               /\ returned' = r.v
               /\ UNCHANGED raised
    /\ \E steps \in {extraction_steps(c, company_analysis)} :
          trace' = [trace EXCEPT !.steps = steps,
                                 !.gateway = @ + Len(SelectSeq(steps, LAMBDA x : x = "query_llm"))]
    /\ UNCHANGED <<OPENAI_API_KEY, client, now, analysis_cache, leads_cache, caller,
                   use_cache, company_analysis, website_data, attempt, response_text,
                   prev_file, prev_miss, last_miss, lead_args, potential_matches,
                   leads>>
    /\ UNCHANGED race_vars

NextRules ==
    \/ \E c \in RuleContents : AnalyzeWithoutLlm(c)
    \/ CallReturn(FALSE)

SpecRules == Init /\ [][NextRules]_vars

TypeCountsOf(c) == <<<<"B2B", c.b2b>>, <<"B2C", c.b2c>>, <<"Government", c.gov>>,
                     <<"Non-profit", c.npo>>>>

\* C26: the rule-based company_type is the category with the highest keyword
\* count among B2B, B2C, Government, Non-profit, the earliest of them when
\* several share the highest count, and Unknown exactly when all four counts
\* are zero.
C26_HighestCountFirst ==
    pc = "r_done" =>
        LET counts == TypeCountsOf(content)
            t == returned["company_type"].s
        IN /\ (t = "Unknown") <=> (\A i \in 1..4 : counts[i][2] = 0)
           /\ t # "Unknown" =>
                 \E i \in 1..4 :
                    /\ counts[i][1] = t
                    /\ \A j \in 1..4 : counts[j][2] <= counts[i][2]
                    /\ \A j \in 1..(i - 1) : counts[j][2] < counts[i][2]

\* B2C and Government share the highest count, above B2B: B2C is returned
C26_Witness ==
    /\ pc = "r_done"
    /\ content.b2b = 1 /\ content.b2c = 2 /\ content.gov = 2 /\ content.npo = 0
    /\ returned["company_type"].s = "B2C"

\* C27: the rule-based company_size is Large if a large-indicator is present,
\* else Medium if a medium-indicator is present, else Small if a
\* small-indicator is present; only with no indicator is a 'team of N' phrase
\* used, giving Small for N < 50, Medium for 50 <= N < 500 and Large for
\* N >= 500; with neither indicator nor phrase the size is Medium.
C27_IndicatorsBeforeTeam ==
    pc = "r_done" =>
        LET z == returned["company_size"].s
            n == content.team
        IN z = IF content.large THEN "Large"
               ELSE IF content.medium THEN "Medium"
               ELSE IF content.small THEN "Small"
               ELSE IF n >= 0 /\ n < 50 THEN "Small"
               ELSE IF n >= 50 /\ n < 500 THEN "Medium"
               ELSE IF n >= 500 THEN "Large"
               ELSE "Medium"

\* a medium-indicator wins over a small-indicator and over 'team of 500'
C27_Witness ==
    /\ pc = "r_done"
    /\ ~content.large /\ content.medium /\ content.small /\ content.team = 500
    /\ returned["company_size"].s = "Medium"

-----------------------------------------------------------------------------
(* _prepare_content by lengths: a text is known by its number of           *)
(* characters, s[:n] with n > 0 by the smaller of len(s) and n.            *)

AboutLimit == 1000                 \* content_analyzer.py:73-74
DefaultMaxLength == 2000           \* content_analyzer.py:58

\* values of MAX_CONTENT_LENGTH
MaxLengths == {DefaultMaxLength, 1000, 600}
MainLengths == {0, 1, 599, 600, 601, 1000, 1001, 1999, 2000, 2001, 3000}
AboutLengths == {0, 1, 600, 999, 1000, 1001, 2500}

\* website_data['important_pages'].get('about'): content is len(about_page['content']),
\* -1 without the key 'content'; error tells whether the key 'error' is there
NoAboutPage == [present |-> FALSE, content |-> -1, error |-> FALSE]
AboutPages ==
    {NoAboutPage} \cup [present : {TRUE}, content : {-1} \cup AboutLengths, error : BOOLEAN]

PreparedRecords ==
    [domain : {"a.com"}, page : {"empty"}, main_content : MainLengths, about : AboutPages]

\* a budget that does not count the about excerpt
main_length_whole(max_length, about_content) == max_length

\* lines 67-74
about_content(about_page) ==
    IF about_page.present /\ about_page.content >= 0 /\ ~about_page.error
    THEN IF about_page.content > AboutLimit THEN AboutLimit ELSE about_page.content
    ELSE 0

\* line 79
main_length(max_length, about) == max_length - about

\* lines 77-88: the characters of main_content and of the about page in the
\* prepared text, and whether the main part ends with "..."
prepared_parts(wd, max_length) ==
    LET about == about_content(wd.about)
        budget == main_length(max_length, about)
    IN [about |-> about,
        main |-> IF budget > 0
                 THEN IF wd.main_content > budget THEN budget ELSE wd.main_content
                 ELSE 0,
        dots |-> budget > 0 /\ wd.main_content > budget,
        main_section |-> budget > 0,
        max_length |-> max_length]

\* ContentAnalyzer()._prepare_content(wd) with MAX_CONTENT_LENGTH = max_length
PrepareContent(wd, max_length) ==
    /\ pc = "idle"
    /\ pc' = "p_done"
    /\ website_data' = wd
    /\ content' = _prepare_content(wd) @@ prepared_parts(wd, max_length)
    /\ trace' = [trace EXCEPT !.prepares = @ + 1]
    /\ UNCHANGED <<OPENAI_API_KEY, client, now, analysis_cache, leads_cache, caller,
                   use_cache, company_analysis, attempt, response_text, path, returned,
                   raised, prev_file, prev_miss, last_miss, lead_args, potential_matches,
                   leads>>
    /\ UNCHANGED race_vars

NextPrepare ==
    \/ \E wd \in PreparedRecords, max_length \in MaxLengths : PrepareContent(wd, max_length)
    \/ CallReturn(FALSE)

SpecPrepare == Init /\ [][NextPrepare]_vars

\* C28: the about excerpt has at most 1000 characters and comes only from an
\* about page with content and without error; the main_content characters
\* included number min(len(main_content), max(0, max_total - len(excerpt)));
\* the ellipsis is added exactly when main_content exceeds a positive budget;
\* main_content contributes nothing when the excerpt alone reaches max_total.
C28_MainWithinBudget ==
    pc = "p_done" =>
        LET wd == website_data
            budget == content.max_length - content.about
        IN /\ content.about <= 1000
           /\ content.about > 0 =>
                 wd.about.present /\ wd.about.content > 0 /\ ~wd.about.error
           /\ wd.about.present /\ wd.about.content >= 0 /\ ~wd.about.error =>
                 content.about = Min(wd.about.content, 1000)
           /\ content.main = Min(wd.main_content, Max(0, budget))
           /\ content.dots <=> (budget > 0 /\ wd.main_content > budget)
           /\ content.about >= content.max_length =>
                 content.main = 0 /\ ~content.dots /\ ~content.main_section

\* an about page of 2500 characters leaves 1000 of 2000 to a main_content of
\* 1001, which is cut to 1000 and marked
C28_Witness ==
    /\ pc = "p_done"
    /\ content.max_length = 2000
    /\ website_data.about.content = 2500 /\ ~website_data.about.error
    /\ website_data.main_content = 1001
    /\ content.about = 1000 /\ content.main = 1000 /\ content.dots

\* C29: in the rule-based fallback the offerings extraction first sends its
\* prompt to the LLM gateway; the regex strategies run only after that attempt,
\* and the industry / company-type lookup only after the regex strategies
\* produced nothing.
C29_GatewayBeforePatterns ==
    pc = "r_done" /\ content.nonempty =>
        /\ trace.gateway >= 1
        /\ trace.steps # <<>> /\ trace.steps[1] = "query_llm"
        /\ \A i \in 1..Len(trace.steps) :
              /\ trace.steps[i] = "patterns" => \E j \in 1..(i - 1) : trace.steps[j] = "query_llm"
              /\ trace.steps[i] = "infer" => \E j \in 1..(i - 1) : trace.steps[j] = "patterns"

-----------------------------------------------------------------------------
(* _generate_fallback_matches called on its own.                           *)

\* company_size as generate_leads reads it from the profile: a known size,
\* 'Unknown', another text, a number, null
FallbackSizes == {PyStr("Large"), PyStr("Medium"), PyStr("Small"), PyStr("Unknown"),
                  PyStr("Enterprise"), PyNum(500), PyNone}
FallbackIndustries == {PyStr("Technology"), PyStr("Healthcare"), PyStr("Unknown"),
                       StrList(<<"Tech", "Finance">>)}
FallbackOfferings == {StrList(<<"cloud hosting", "data analytics">>), StrList(<<>>)}

\* LeadGenerator()._generate_fallback_matches(industry, offerings, target_market, company_size)
GenerateFallbackMatches(industry, offerings, company_size, rnd) ==
    /\ pc = "idle"
    /\ caller' = "leads"
    /\ path' = "fallback"
    /\ lead_args' = [profile |-> [EmptyDict EXCEPT !["industry"] = industry,
                                                   !["offerings"] = offerings,
                                                   !["company_size"] = company_size],
                     domain |-> "a.com"]
    /\ \E r \in {_generate_fallback_matches(industry, offerings, PyStr("Unknown"),
                                            company_size, rnd)} :
          IF r.out = "raise"
          THEN /\ pc' = "f_raised"
               /\ raised' = r.exc
               /\ UNCHANGED potential_matches
          ELSE /\ pc' = "f_done"
               /\ potential_matches' = r.v
               /\ UNCHANGED raised
    /\ trace' = [trace EXCEPT !.draws = 1]
    /\ UNCHANGED <<OPENAI_API_KEY, client, now, analysis_cache, leads_cache, use_cache,
                   company_analysis, website_data, content, attempt, response_text,
                   returned, prev_file, prev_miss, last_miss, leads>>
    /\ UNCHANGED race_vars

NextFallback ==
    \/ \E industry \in FallbackIndustries, offerings \in FallbackOfferings,
          company_size \in FallbackSizes, rnd \in RandomSources :
             GenerateFallbackMatches(industry, offerings, company_size, rnd)
    \/ CallReturn(FALSE)

SpecFallback == Init /\ [][NextFallback]_vars

\* C30: no candidate of _generate_fallback_matches has size Small: every
\* candidate is Large when the source company is Large or Medium and Medium
\* for every other source size.
C30_NeverSmall ==
    pc = "f_done" =>
        /\ Len(potential_matches) = 5
        /\ \A i \in 1..Len(potential_matches) :
              /\ potential_matches[i].size # PyStr("Small")
              /\ potential_matches[i].size =
                    IF SourceSize \in {PyStr("Large"), PyStr("Medium")}
                    THEN PyStr("Large") ELSE PyStr("Medium")

\* a Small source company: five candidates of size Medium
C30_Witness ==
    /\ pc = "f_done"
    /\ SourceSize = PyStr("Small")
    /\ Len(potential_matches) = 5
    /\ \A i \in 1..5 : potential_matches[i].size = PyStr("Medium")

-----------------------------------------------------------------------------
(* Two requests for one domain run analyze_company with caching at the     *)
(* same time.  Each thread has its own ContentAnalyzer; they share the     *)
(* cache file only.  A text under io.DEFAULT_BUFFER_SIZE reaches the file  *)
(* in one write when the with-block closes it.                             *)

\* the lines json.dumps(v, indent=2) gives the value of one key: one per
\* scalar, one per item between the two brackets of a list
value_lines(v) ==
    CASE v.t = "absent" -> 0
      [] v.t \in {"list", "dict"} -> IF v.items = <<>> THEN 1 ELSE Len(v.items) + 2
      [] OTHER -> 1

RECURSIVE keys_lines(_, _)
keys_lines(data, ks) ==
    IF ks = {} THEN 0
    ELSE LET k == CHOOSE x \in ks : TRUE
         IN value_lines(data[k]) + keys_lines(data, ks \ {k})

\* the number of lines of json.dumps(data, indent=2)
dump_lines(data) == 2 + keys_lines(data, Keys)

\* what json.dump(data, f, indent=2) of request r hands to f
dumped_text(r, data) == [w |-> r, doc |-> json_dump(data), n |-> dump_lines(data)]
text_lines(text) == [i \in 1..text.n |-> [text |-> text, i |-> i]]

\* open(cache_path, 'w'): O_TRUNC empties the file
open_w(file) == [exists |-> TRUE, lines |-> <<>>]

\* the write at close: the handle's own offset is 0, the text replaces what
\* the file holds from its start and leaves what lies beyond the text's end
write_at_0(file, text) ==
    [exists |-> TRUE,
     lines |-> text_lines(text) \o SubSeq(file.lines, text.n + 1, Len(file.lines))]

\* json.load(f): one whole document and nothing after it, else JSONDecodeError
race_json_load(file) ==
    LET ls == file.lines
    IN IF /\ ls # <<>>
          /\ Len(ls) = ls[1].text.n
          /\ \A i \in 1..Len(ls) : ls[i] = [text |-> ls[1].text, i |-> i]
       THEN Return(ls[1].text.doc)
       ELSE Raise("JSONDecodeError", json_dump(EmptyDict))

\* _check_cache on the shared file: the except of line 459 makes a miss of a
\* file that does not parse
race_check_cache(file, t) ==
    IF ~file.exists THEN [hit |-> FALSE, data |-> EmptyDict]
    ELSE LET doc == race_json_load(file)
         IN IF doc.out = "raise" THEN [hit |-> FALSE, data |-> EmptyDict]
            ELSE analyzer_check_cache(File(doc.v), t)

\* what the backend answers the two requests
RaceTexts == {JsonText(ANSWER_GOOD), JsonText(ANSWER_ROLES), NoneText}

\* analyze_company, lines 29-34: the cache check of request r
RequestCheck(r) ==
    /\ requests[r].pc = "start"
    /\ \E c \in {race_check_cache(cache_file, now)} :
          requests' = [requests EXCEPT ![r] =
                          IF c.hit THEN [@ EXCEPT !.pc = "done", !.returned = c.data]
                          ELSE [@ EXCEPT !.pc = "analyze"]]
    /\ UNCHANGED <<cache_file, last_writer>>
    /\ UNCHANGED call_vars

\* lines 37-46: the analysis of request r, given the answer of the backend
RequestAnalyze(r, text) ==
    /\ requests[r].pc = "analyze"
    /\ \E a \in {_analyze_with_openai(CONTENT_TECH, text, EmptyDict).res} :
          requests' = [requests EXCEPT ![r] =
                          IF a.out = "raise" THEN [@ EXCEPT !.pc = "raised"]
                          ELSE [@ EXCEPT !.pc = "open",
                                         !.data = [a.v EXCEPT !["timestamp"] = isoformat(now)]]]
    /\ UNCHANGED <<cache_file, last_writer>>
    /\ UNCHANGED call_vars

\* line 469: request r opens the file for writing
RequestOpen(r) ==
    /\ requests[r].pc = "open"
    /\ cache_file' = open_w(cache_file)
    /\ requests' = [requests EXCEPT ![r].pc = "write"]
    /\ UNCHANGED last_writer
    /\ UNCHANGED call_vars

\* lines 470 and 469 (the end of the with-block), then line 53: the text of
\* request r reaches the file and analyze_company returns
RequestWrite(r) ==
    /\ requests[r].pc = "write"
    /\ cache_file' = write_at_0(cache_file, dumped_text(r, requests[r].data))
    /\ last_writer' = r
    /\ requests' = [requests EXCEPT ![r].pc = "done", ![r].returned = requests[r].data]
    /\ UNCHANGED call_vars

NextRace ==
    \/ \E r \in Requests : RequestCheck(r)
    \/ \E r \in Requests, text \in RaceTexts : RequestAnalyze(r, text)
    \/ \E r \in Requests : RequestOpen(r)
    \/ \E r \in Requests : RequestWrite(r)

SpecRace == Init /\ [][NextRace]_vars

\* the profiles the two requests can compute, and the same read back from a file
RaceProfiles ==
    {[_analyze_with_openai(CONTENT_TECH, text, EmptyDict).res.v
         EXCEPT !["timestamp"] = isoformat(0)] : text \in RaceTexts}
CompleteProfile(p) == \E q \in RaceProfiles : p = q \/ p = json_load(json_dump(q))

AllFinished == \A r \in Requests : requests[r].pc = "done"

\* every finished request holds a complete profile
C22_EachComplete ==
    \A r \in Requests : requests[r].pc = "done" => CompleteProfile(requests[r].returned)

\* C22: under every interleaving of two concurrent requests for one domain
\* each request returns a complete profile, and once both have finished the
\* cache file is exactly what the last writer wrote, never a mixture of the two.
C22_LastWriterWins ==
    /\ C22_EachComplete
    /\ (AllFinished /\ last_writer # 0)
          => cache_file = write_at_0(NoCacheFile,
                                     dumped_text(last_writer, requests[last_writer].data))

====
